---- MODULE Spec2Model ----
(***************************************************************************)
(* Model of the contract-storage endpoint of stellar/laboratory-backend:   *)
(* request parameter parsing, the cursor codec, the keyset query builder   *)
(* (with the PostgreSQL semantics of the statement it emits), the result   *)
(* serializer and the pagination link builder, driven by a client that     *)
(* walks the pages of one contract forward and backward.                   *)
(*                                                                         *)
(* Text the program parses or compares (query-string values, key hashes,   *)
(* durability tags, cursor fields) is a sequence of one-character strings. *)
(* Identifiers internal to the program (column names, error names) are     *)
(* plain strings.                                                          *)
(***************************************************************************)
EXTENDS Integers, Sequences, FiniteSets, TLC

VARIABLES table, latestLedgerSequence, collaborators, req, resp, effects, mode, pages, pos

\* the requests being handled at the same time, one for each caller
VARIABLES inflight

\* the ledger-state service (utils/stellar.ts), its clock, its upstream and
\* the calls made of it
VARIABLES now, cachedLatestLedgerSequence, cachedLatestLedgerAtMs, fetchLatestLedger, networkLedger, upstreamCalls, calls

endpointVars == <<table, latestLedgerSequence, collaborators, req, resp, effects, mode, pages, pos, inflight>>

serviceVars == <<now, cachedLatestLedgerSequence, cachedLatestLedgerAtMs, fetchLatestLedger, networkLedger, upstreamCalls, calls>>

vars == <<table, latestLedgerSequence, collaborators, req, resp, effects, mode, pages, pos, inflight, now, cachedLatestLedgerSequence, cachedLatestLedgerAtMs, fetchLatestLedger, networkLedger, upstreamCalls, calls>>

(***************************************************************************)
(* Bounds of the model.                                                    *)
(***************************************************************************)
\* largest number of rows of a generated contract table
MaxRows == 3
\* largest page size a walking client asks for
MaxLimit == 3
\* largest number of non-empty pages a forward walk collects
MaxPages == 6
\* number of cache lifetimes the clock of the ledger-state service runs for
MaxWindows == 1
\* number of ledgers the network closes while the service is watched
MaxLedgers == 1
\* largest number of upstream fetches of the ledger-state service
MaxFetches == 2

(***************************************************************************)
(* Characters and text.                                                    *)
(***************************************************************************)
Digits == <<"0", "1", "2", "3", "4", "5", "6", "7", "8", "9">>

LowerCaseLetters ==
  <<"a", "b", "c", "d", "e", "f", "g", "h", "i", "j", "k", "l", "m",
    "n", "o", "p", "q", "r", "s", "t", "u", "v", "w", "x", "y", "z">>

UpperCaseLetters ==
  <<"A", "B", "C", "D", "E", "F", "G", "H", "I", "J", "K", "L", "M",
    "N", "O", "P", "Q", "R", "S", "T", "U", "V", "W", "X", "Y", "Z">>

\* the characters of the model in code-point order
CharOrder ==
  <<" ", "+", "-", ".">> \o Digits \o UpperCaseLetters \o <<"_">> \o LowerCaseLetters

IndexOf(seq, c) == CHOOSE i \in 1..Len(seq) : seq[i] = c

IsIn(seq, c) == \E i \in 1..Len(seq) : seq[i] = c

IsDigit(c) == IsIn(Digits, c)

DigitVal(c) == IndexOf(Digits, c) - 1

CharCode(c) == IndexOf(CharOrder, c)

\* String.prototype.toLowerCase, one character
LowerChar(c) ==
  IF IsIn(UpperCaseLetters, c) THEN LowerCaseLetters[IndexOf(UpperCaseLetters, c)] ELSE c

toLowerCase(s) == [i \in 1..Len(s) |-> LowerChar(s[i])]

RECURSIVE TrimStart(_)
TrimStart(s) == IF s # <<>> /\ Head(s) = " " THEN TrimStart(Tail(s)) ELSE s

RECURSIVE TrimEnd(_)
TrimEnd(s) ==
  IF s # <<>> /\ s[Len(s)] = " " THEN TrimEnd(SubSeq(s, 1, Len(s) - 1)) ELSE s

\* String.prototype.trim
trim(s) == TrimEnd(TrimStart(s))

\* comparison of two texts by code point, as the database compares text
RECURSIVE TextLess(_, _)
TextLess(a, b) ==
  IF b = <<>> THEN FALSE
  ELSE IF a = <<>> THEN TRUE
  ELSE IF Head(a) = Head(b) THEN TextLess(Tail(a), Tail(b))
  ELSE CharCode(Head(a)) < CharCode(Head(b))

(***************************************************************************)
(* Numbers read from text.  A JavaScript number is a record: nan says it   *)
(* is NaN, int says it is an integer, v is its value (its integer part     *)
(* when it is no integer).                                                 *)
(***************************************************************************)
NaN == [nan |-> TRUE, int |-> FALSE, v |-> 0]

Number(n) == [nan |-> FALSE, int |-> TRUE, v |-> n]

Fraction(n) == [nan |-> FALSE, int |-> FALSE, v |-> n]

RECURSIVE DigitPrefix(_)
DigitPrefix(s) ==
  IF s # <<>> /\ IsDigit(Head(s)) THEN <<Head(s)>> \o DigitPrefix(Tail(s)) ELSE <<>>

RECURSIVE DigitsValue(_, _)
DigitsValue(s, acc) ==
  IF s = <<>> THEN acc ELSE DigitsValue(Tail(s), acc * 10 + DigitVal(Head(s)))

RECURSIVE Pow10(_)
Pow10(k) == IF k <= 0 THEN 1 ELSE 10 * Pow10(k - 1)

HasSign(s) == s # <<>> /\ Head(s) \in {"+", "-"}

\* the global parseInt(string) with no radix: leading white space and one
\* sign are skipped and the longest prefix of decimal digits is read; what
\* follows the digits is ignored
parseInt(str) ==
  LET s1 == TrimStart(str)
      neg == s1 # <<>> /\ Head(s1) = "-"
      s2 == IF HasSign(s1) THEN Tail(s1) ELSE s1
      ds == DigitPrefix(s2)
  IN IF ds = <<>> THEN NaN
     ELSE Number(IF neg THEN 0 - DigitsValue(ds, 0) ELSE DigitsValue(ds, 0))

\* the scan of an unsigned decimal literal, one character at a time: phase
\* is the part being read ("int", "frac", "sign" of the exponent, "exp"),
\* acc the digits read so far
RECURSIVE ScanDecimal(_, _, _)
ScanDecimal(s, phase, acc) ==
  IF s = <<>>
  THEN [acc EXCEPT !.valid = acc.digits /\ (phase \in {"int", "frac"} \/ acc.expDigits)]
  ELSE CASE phase = "int" /\ IsDigit(Head(s)) ->
              ScanDecimal(Tail(s), "int",
                          [acc EXCEPT !.mant = @ * 10 + DigitVal(Head(s)), !.digits = TRUE])
         [] phase = "int" /\ Head(s) = "." -> ScanDecimal(Tail(s), "frac", acc)
         [] phase = "frac" /\ IsDigit(Head(s)) ->
              ScanDecimal(Tail(s), "frac",
                          [acc EXCEPT !.mant = @ * 10 + DigitVal(Head(s)),
                                      !.fracLen = @ + 1, !.digits = TRUE])
         [] phase \in {"int", "frac"} /\ Head(s) \in {"e", "E"} /\ acc.digits ->
              ScanDecimal(Tail(s), "sign", acc)
         [] phase = "sign" /\ Head(s) \in {"+", "-"} ->
              ScanDecimal(Tail(s), "exp", [acc EXCEPT !.expNeg = (Head(s) = "-")])
         [] phase \in {"sign", "exp"} /\ IsDigit(Head(s)) ->
              ScanDecimal(Tail(s), "exp",
                          [acc EXCEPT !.exp = @ * 10 + DigitVal(Head(s)), !.expDigits = TRUE])
         [] OTHER -> [acc EXCEPT !.valid = FALSE]

\* the number a scanned literal denotes: mant / 10^(fracLen - exp)
DecimalValue(scan, neg) ==
  IF ~scan.valid THEN NaN
  ELSE IF scan.shift <= 0
  THEN Number((IF neg THEN 0 - scan.mant ELSE scan.mant) * Pow10(0 - scan.shift))
  ELSE IF scan.mant % Pow10(scan.shift) = 0
  THEN Number((IF neg THEN 0 - scan.mant ELSE scan.mant) \div Pow10(scan.shift))
  ELSE Fraction((IF neg THEN 0 - scan.mant ELSE scan.mant) \div Pow10(scan.shift))

WithShift(scan) ==
  [valid |-> scan.valid, mant |-> scan.mant,
   shift |-> scan.fracLen - (IF scan.expNeg THEN 0 - scan.exp ELSE scan.exp)]

NoDigits ==
  [valid |-> FALSE, digits |-> FALSE, mant |-> 0, fracLen |-> 0, exp |-> 0,
   expNeg |-> FALSE, expDigits |-> FALSE]

Unsigned(s) == IF HasSign(s) THEN Tail(s) ELSE s

\* Number(string), the coercion of z.coerce.number(): the whole trimmed text
\* must be a decimal literal (digits, optional fraction, optional exponent);
\* the empty text is 0
StringToNumber(str) ==
  IF trim(str) = <<>> THEN Number(0)
  ELSE DecimalValue(WithShift(ScanDecimal(Unsigned(trim(str)), "int", NoDigits)),
                    Head(trim(str)) = "-")

\* Number.prototype.toString of a non-negative integer
RECURSIVE NumberToString(_)
NumberToString(n) ==
  IF n < 10 THEN <<Digits[n + 1]>>
  ELSE NumberToString(n \div 10) \o <<Digits[(n % 10) + 1]>>

(***************************************************************************)
(* The storage table (types/contract_data.ts, ContractData): the rows of   *)
(* one contract.  key_hash is unique in a table, durability is a text tag, *)
(* live_until_ledger_sequence is an integer or NULL, closed_at is a        *)
(* timestamp in milliseconds since the epoch (the Date the driver returns).*)
(***************************************************************************)
SqlNull == [null |-> TRUE, v |-> 0]

SqlInt(n) == [null |-> FALSE, v |-> n]

DUR_PERSISTENT == <<"p", "e", "r", "s", "i", "s", "t", "e", "n", "t">>

DUR_TEMPORARY == <<"t", "e", "m", "p", "o", "r", "a", "r", "y">>

DUR_INSTANCE == <<"i", "n", "s", "t", "a", "n", "c", "e">>

\* key hashes of a table, in text order
KeyHashes == << <<"a", "a">>, <<"b", "b">>, <<"c", "c">>, <<"d", "d">>, <<"e", "e">> >>

\* the column values a generated row takes: equal and distinct sort values,
\* a NULL ttl, timestamps inside one second and on a second's boundary
RowValues ==
  { [durability |-> DUR_PERSISTENT, live_until_ledger_sequence |-> SqlInt(901), closed_at |-> 1000],
    [durability |-> DUR_TEMPORARY, live_until_ledger_sequence |-> SqlInt(902), closed_at |-> 1500],
    [durability |-> DUR_PERSISTENT, live_until_ledger_sequence |-> SqlNull, closed_at |-> 2000],
    [durability |-> DUR_INSTANCE, live_until_ledger_sequence |-> SqlInt(903), closed_at |-> 2000] }

Row(k, val) ==
  [key_hash |-> k, durability |-> val.durability,
   live_until_ledger_sequence |-> val.live_until_ledger_sequence,
   closed_at |-> val.closed_at]

\* the tables of n rows: the first n key hashes, each with any column values
TablesOfSize(n) ==
  { {Row(KeyHashes[i], f[i]) : i \in 1..n} : f \in [1..n -> RowValues] }

\* the five rows of the ttl scenario: two rows without ttl (aa, bb), three
\* rows with the distinct ttl 901, 902, 903 and whole-second timestamps
ScenarioTable ==
  { [key_hash |-> KeyHashes[1], durability |-> DUR_PERSISTENT,
     live_until_ledger_sequence |-> SqlNull, closed_at |-> 5000],
    [key_hash |-> KeyHashes[2], durability |-> DUR_TEMPORARY,
     live_until_ledger_sequence |-> SqlNull, closed_at |-> 4000],
    [key_hash |-> KeyHashes[3], durability |-> DUR_INSTANCE,
     live_until_ledger_sequence |-> SqlInt(901), closed_at |-> 3000],
    [key_hash |-> KeyHashes[4], durability |-> DUR_PERSISTENT,
     live_until_ledger_sequence |-> SqlInt(902), closed_at |-> 2000],
    [key_hash |-> KeyHashes[5], durability |-> DUR_PERSISTENT,
     live_until_ledger_sequence |-> SqlInt(903), closed_at |-> 1000] }

Tables == UNION {TablesOfSize(n) : n \in 0..MaxRows} \cup {ScenarioTable}

\* the values the ledger-state service answers with
LedgerSequences == {902}

(***************************************************************************)
(* types/contract_data.ts: SortDirection, SortField, APIFieldToDBFieldMap. *)
(***************************************************************************)
ASC == <<"a", "s", "c">>

DESC == <<"d", "e", "s", "c">>

DURABILITY == <<"d", "u", "r", "a", "b", "i", "l", "i", "t", "y">>

KEY_HASH == <<"k", "e", "y", "_", "h", "a", "s", "h">>

TTL == <<"t", "t", "l">>

UPDATED_AT == <<"u", "p", "d", "a", "t", "e", "d", "_", "a", "t">>

validSortFields == <<DURABILITY, KEY_HASH, TTL, UPDATED_AT>>

APIFieldToDBFieldMap(sortField) ==
  CASE sortField = DURABILITY -> "durability"
    [] sortField = KEY_HASH -> "key_hash"
    [] sortField = TTL -> "live_until_ledger_sequence"
    [] sortField = UPDATED_AT -> "closed_at"
    [] OTHER -> "undefined"

(***************************************************************************)
(* Optional values and cursor sort values.  An optional text is a record:  *)
(* def says whether it is there.  A sort value is tagged with its          *)
(* JavaScript type: undefined, null, number (n), bigint (n) or string (s). *)
(***************************************************************************)
Undefined == [def |-> FALSE, v |-> <<>>]

Defined(text) == [def |-> TRUE, v |-> text]

SvUndefined == [t |-> "undefined", n |-> 0, s |-> <<>>]

SvNull == [t |-> "null", n |-> 0, s |-> <<>>]

SvNumber(n) == [t |-> "number", n |-> n, s |-> <<>>]

SvBigInt(n) == [t |-> "bigint", n |-> n, s |-> <<>>]

SvString(text) == [t |-> "string", n |-> 0, s |-> text]

(***************************************************************************)
(* The cursor codec (helpers/cursor.ts: CursorData, cursorDataSchema,      *)
(* encodeCursor, decodeCursor).  A cursor string is modelled by what its   *)
(* base64 text decodes to: kind "json" is a JSON object with the members   *)
(* cursorType, sortField, position.keyHash and position.sortValue, each    *)
(* of which may be missing; kind "garbage" is text that is no JSON; kind   *)
(* "none" is the absent query parameter.                                   *)
(***************************************************************************)
NoCursor ==
  [kind |-> "none", cursorType |-> Undefined, sortField |-> Undefined,
   position |-> FALSE, keyHash |-> Undefined, sortValue |-> SvUndefined]

GarbageCursor ==
  [kind |-> "garbage", cursorType |-> Undefined, sortField |-> Undefined,
   position |-> FALSE, keyHash |-> Undefined, sortValue |-> SvUndefined]

NEXT == <<"n", "e", "x", "t">>

PREV == <<"p", "r", "e", "v">>

CursorData(cursorType, sortField, keyHash, sortValue) ==
  [cursorType |-> cursorType, sortField |-> sortField,
   position |-> [keyHash |-> keyHash, sortValue |-> sortValue]]

\* JSON.stringify of a cursor: a member whose value is undefined is left
\* out, null and numbers and strings are written as they are
JsonStringify(cursorData) ==
  [kind |-> "json",
   cursorType |-> Defined(cursorData.cursorType),
   sortField |-> cursorData.sortField,
   position |-> TRUE,
   keyHash |-> Defined(cursorData.position.keyHash),
   sortValue |-> cursorData.position.sortValue]

encodeCursor(cursorData) ==
  LET cursorType == IF cursorData.cursorType # PREV THEN NEXT ELSE PREV
      sv == cursorData.position.sortValue
      sortValue == IF sv.t = "bigint" THEN SvString(NumberToString(sv.n)) ELSE sv
  IN JsonStringify(CursorData(cursorType, cursorData.sortField,
                              cursorData.position.keyHash, sortValue))

\* cursorDataSchema.safeParse: cursorType is "next" or "prev", sortField is
\* an optional string, position is an object whose keyHash is a string and
\* whose sortValue, if there, is a number or a string
\* C14 fails where the schema takes null for a sortValue
SortValueSchemaAccepts_Nullable(sortValue) ==
  sortValue.t \in {"undefined", "null", "number", "string"}

SortValueSchemaAccepts(sortValue) == sortValue.t \in {"undefined", "number", "string"}

\* C11 fails where any JSON passes for a cursor
cursorDataSchemaAccepts_Any(json) == TRUE

cursorDataSchemaAccepts(json) ==
  /\ json.cursorType.def
  /\ json.cursorType.v \in {NEXT, PREV}
  /\ json.position
  /\ json.keyHash.def
  /\ SortValueSchemaAccepts(json.sortValue)

\* C15 fails where the decoded JSON is not checked against the schema
decodeCursor_Unchecked(cursor) ==
  IF cursor.kind = "json" /\ cursor.cursorType.def /\ cursor.keyHash.def
  THEN [ok |-> TRUE,
        data |-> CursorData(cursor.cursorType.v, cursor.sortField,
                            cursor.keyHash.v, cursor.sortValue)]
  ELSE [ok |-> FALSE,
        data |-> CursorData(NEXT, Undefined, <<>>, SvUndefined)]

\* decodeCursor: ok is FALSE where it throws InvalidCursorError
decodeCursor(cursor) ==
  IF cursor.kind = "json" /\ cursorDataSchemaAccepts(cursor)
  THEN [ok |-> TRUE,
        data |-> CursorData(cursor.cursorType.v, cursor.sortField,
                            cursor.keyHash.v, cursor.sortValue)]
  ELSE [ok |-> FALSE,
        data |-> CursorData(NEXT, Undefined, <<>>, SvUndefined)]

(***************************************************************************)
(* SQL values and three-valued logic, as PostgreSQL evaluates the WHERE    *)
(* and ORDER BY clauses of the statements the query builder emits.  A      *)
(* value has a type (text, int, timestamptz in milliseconds) and may be    *)
(* NULL; a condition is "T", "F" or "N" (unknown), and a row is selected   *)
(* only where the condition is "T".                                        *)
(***************************************************************************)
SqlText(text) == [type |-> "text", null |-> FALSE, n |-> 0, s |-> text]

SqlInteger(v) == [type |-> "int", null |-> v.null, n |-> v.v, s |-> <<>>]

SqlTimestamp(ms) == [type |-> "timestamptz", null |-> FALSE, n |-> ms, s |-> <<>>]

SqlAnd(a, b) ==
  IF a = "F" \/ b = "F" THEN "F" ELSE IF a = "N" \/ b = "N" THEN "N" ELSE "T"

SqlOr(a, b) ==
  IF a = "T" \/ b = "T" THEN "T" ELSE IF a = "N" \/ b = "N" THEN "N" ELSE "F"

SqlBool(b) == IF b THEN "T" ELSE "F"

SqlLess(a, b) == IF a.type = "text" THEN TextLess(a.s, b.s) ELSE a.n < b.n

SqlSame(a, b) == IF a.type = "text" THEN a.s = b.s ELSE a.n = b.n

\* a op b for op one of ">", "<", "="
SqlCompare(a, op, b) ==
  IF a.null \/ b.null THEN "N"
  ELSE CASE op = ">" -> SqlBool(SqlLess(b, a))
         [] op = "<" -> SqlBool(SqlLess(a, b))
         [] OTHER -> SqlBool(SqlSame(a, b))

SqlIsNull(a) == SqlBool(a.null)

SqlIsNotNull(a) == SqlBool(~a.null)

\* the value of a column of a row
ColumnValue(row, sortDbField) ==
  CASE sortDbField = "durability" -> SqlText(row.durability)
    [] sortDbField = "live_until_ledger_sequence" -> SqlInteger(row.live_until_ledger_sequence)
    [] sortDbField = "closed_at" -> SqlTimestamp(row.closed_at)
    [] OTHER -> SqlText(row.key_hash)

\* to_timestamp(seconds)
to_timestamp(seconds) == SqlTimestamp(seconds * 1000)

\* a bound parameter: a number binds as an integer, a string as text
SqlParameter(value) ==
  IF value.t = "string" THEN SqlText(value.s) ELSE SqlInteger([null |-> FALSE, v |-> value.n])

(***************************************************************************)
(* The query builder (query-builders/contract_data.ts).  A statement is    *)
(* modelled by its clauses: the cursor condition of its WHERE, the ORDER   *)
(* BY and LIMIT of the page it fetches, and the ORDER BY of the rows it    *)
(* returns.                                                                *)
(***************************************************************************)
NULLABLE_SORT_DB_FIELDS == {"live_until_ledger_sequence"}

\* C3 fails where a nullable column is ordered NULLS LAST in both directions
NullsClause_AlwaysLast(direction, sortDbField) ==
  IF sortDbField \in NULLABLE_SORT_DB_FIELDS THEN "NULLS LAST" ELSE ""

\* the NULLS clause orderBy appends for a nullable column
NullsClause(direction, sortDbField) ==
  IF sortDbField \in NULLABLE_SORT_DB_FIELDS
  THEN IF direction = ASC THEN "NULLS LAST" ELSE "NULLS FIRST"
  ELSE ""

orderBy(direction, sortDbField, sortField) ==
  IF sortField = KEY_HASH
  THEN [keyHashOnly |-> TRUE, column |-> "key_hash", direction |-> direction, nulls |-> ""]
  ELSE [keyHashOnly |-> FALSE, column |-> sortDbField, direction |-> direction,
        nulls |-> NullsClause(direction, sortDbField)]

\* C22 fails where the value of the cursor decides how it is written
toSqlSortValue_ByValue(sortDbField, value) ==
  IF sortDbField = "closed_at" /\ value.t = "number" /\ value.n > 1
  THEN to_timestamp(value.n)
  ELSE SqlParameter(value)

toSqlSortValue(sortDbField, value) ==
  IF sortDbField = "closed_at" /\ value.t = "number"
  THEN to_timestamp(value.n)
  ELSE SqlParameter(value)

NoCondition ==
  [form |-> "none", column |-> "key_hash", op |-> ">", value |-> SqlText(<<>>), keyHash |-> <<>>]

\* the condition of queryWithCursorKeyHash: cd.key_hash op cursorKeyHash
KeyHashCondition(op, cursorKeyHash) ==
  [form |-> "keyHash", column |-> "key_hash", op |-> op, value |-> SqlText(<<>>),
   keyHash |-> cursorKeyHash]

\* C25 fails where the NULL rows are taken in both directions
IncludesNullRows_BothWays(sortDbField, op) == sortDbField \in NULLABLE_SORT_DB_FIELDS

\* whether the keyset condition of a non-null cursor also takes the NULL rows
IncludesNullRows(sortDbField, op) == sortDbField \in NULLABLE_SORT_DB_FIELDS /\ op = ">"

buildNullAwareCursorCondition(op, cursorKeyHash, cursorSortValue, sortDbField) ==
  IF cursorSortValue.t # "null"
  THEN [form |-> IF IncludesNullRows(sortDbField, op) THEN "keysetOrNull" ELSE "keyset",
        column |-> sortDbField, op |-> op,
        value |-> toSqlSortValue(sortDbField, cursorSortValue), keyHash |-> cursorKeyHash]
  ELSE [form |-> IF op = ">" THEN "nullGroup" ELSE "notNullOrNullGroup",
        column |-> sortDbField, op |-> op, value |-> SqlText(<<>>),
        keyHash |-> cursorKeyHash]

\* the truth value of a cursor condition on a row
EvalCondition(cond, row) ==
  LET col == ColumnValue(row, cond.column)
      keyCmp == SqlCompare(SqlText(row.key_hash), cond.op, SqlText(cond.keyHash))
      base == SqlOr(SqlCompare(col, cond.op, cond.value),
                    SqlAnd(SqlCompare(col, "=", cond.value), keyCmp))
  IN CASE cond.form = "none" -> "T"
       [] cond.form = "keyHash" -> keyCmp
       [] cond.form = "keyset" -> base
       [] cond.form = "keysetOrNull" -> SqlOr(base, SqlIsNull(col))
       [] cond.form = "nullGroup" -> SqlAnd(SqlIsNull(col), keyCmp)
       [] OTHER -> SqlOr(SqlIsNotNull(col), SqlAnd(SqlIsNull(col), keyCmp))

\* a comparison of a column with a parameter of another type is an error
\* of the statement
ColumnType(sortDbField) ==
  CASE sortDbField = "live_until_ledger_sequence" -> "int"
    [] sortDbField = "closed_at" -> "timestamptz"
    [] OTHER -> "text"

ConditionTypeError(cond) ==
  /\ cond.form \in {"keyset", "keysetOrNull"}
  /\ cond.value.type # ColumnType(cond.column)

invertDirection(sortDirection) == IF sortDirection = ASC THEN DESC ELSE ASC

directionInCTE(cursorType, sortDirection) ==
  IF cursorType = NEXT THEN sortDirection ELSE invertDirection(sortDirection)

CursorOp(direction) == IF direction = DESC THEN "<" ELSE ">"

queryWithoutCursor(limit, sortDbField, sortDirection, sortField) ==
  [cte |-> FALSE, where |-> NoCondition,
   orderByInCTE |-> orderBy(sortDirection, sortDbField, sortField),
   orderByFinal |-> orderBy(sortDirection, sortDbField, sortField),
   limit |-> limit]

queryWithCursorSortField(limit, sortDbField, sortDirection, sortField, cursorKeyHash, cursorSortValue, cursorType) ==
  LET dir == directionInCTE(cursorType, sortDirection)
  IN [cte |-> TRUE,
      where |-> buildNullAwareCursorCondition(CursorOp(dir), cursorKeyHash,
                                               cursorSortValue, sortDbField),
      orderByInCTE |-> orderBy(dir, sortDbField, sortField),
      orderByFinal |-> orderBy(sortDirection, sortDbField, sortField),
      limit |-> limit]

queryWithCursorKeyHash(limit, sortDbField, sortDirection, sortField, cursorKeyHash, cursorType) ==
  LET dir == directionInCTE(cursorType, sortDirection)
  IN [cte |-> TRUE,
      where |-> KeyHashCondition(CursorOp(dir), cursorKeyHash),
      orderByInCTE |-> orderBy(dir, sortDbField, sortField),
      orderByFinal |-> orderBy(sortDirection, sortDbField, sortField),
      limit |-> limit]

\* config.cursor is the decoded cursor, config.hasCursor whether there is one
buildContractDataQuery(config) ==
  LET cursorData == config.cursorData
      keyHash == cursorData.position.keyHash
      sortValue == cursorData.position.sortValue
      hasCursorSortField ==
        /\ cursorData.sortField.def
        /\ cursorData.sortField.v # KEY_HASH
        /\ sortValue.t # "undefined"
  IN IF ~config.hasCursor
     THEN queryWithoutCursor(config.limit, config.sortDbField, config.sortDirection,
                             config.sortField)
     ELSE IF ~hasCursorSortField
     THEN queryWithCursorKeyHash(config.limit, config.sortDbField, config.sortDirection,
                                 config.sortField, keyHash, cursorData.cursorType)
     ELSE queryWithCursorSortField(config.limit, config.sortDbField, config.sortDirection,
                                   config.sortField, keyHash, sortValue,
                                   cursorData.cursorType)

(***************************************************************************)
(* Execution of a statement by the database.                               *)
(***************************************************************************)
KeyHashBefore(direction, a, b) ==
  IF direction = ASC THEN TextLess(a.key_hash, b.key_hash)
  ELSE TextLess(b.key_hash, a.key_hash)

\* NULLS FIRST or NULLS LAST; PostgreSQL's default is NULLS LAST for ASC
\* and NULLS FIRST for DESC
NullsFirst(order) ==
  \/ order.nulls = "NULLS FIRST"
  \/ order.nulls = "" /\ order.direction = DESC

\* whether row a comes before row b under ORDER BY column direction nulls,
\* key_hash direction
RowBefore(order, a, b) ==
  LET ca == ColumnValue(a, order.column)
      cb == ColumnValue(b, order.column)
  IN IF order.keyHashOnly THEN KeyHashBefore(order.direction, a, b)
     ELSE IF ca.null /\ cb.null THEN KeyHashBefore(order.direction, a, b)
     ELSE IF ca.null THEN NullsFirst(order)
     ELSE IF cb.null THEN ~NullsFirst(order)
     ELSE IF SqlSame(ca, cb) THEN KeyHashBefore(order.direction, a, b)
     ELSE IF order.direction = ASC THEN SqlLess(ca, cb) ELSE SqlLess(cb, ca)

RECURSIVE SortRows(_, _)
SortRows(rows, order) ==
  IF rows = {} THEN <<>>
  ELSE LET first == CHOOSE r \in rows : \A o \in rows \ {r} : RowBefore(order, r, o)
       IN <<first>> \o SortRows(rows \ {first}, order)

Limit(seq, n) == SubSeq(seq, 1, IF Len(seq) < n THEN Len(seq) ELSE n)

Range(seq) == {seq[i] : i \in 1..Len(seq)}

\* C19 fails where a row whose ttl is the latest ledger counts as expired
Expired_AtLatest(row, latest) ==
  /\ ~row.live_until_ledger_sequence.null
  /\ row.live_until_ledger_sequence.v <= latest

\* COALESCE(live_until_ledger_sequence < latestLedgerSequence, false)
Expired(row, latest) ==
  SqlCompare(SqlInteger(row.live_until_ledger_sequence), "<",
             SqlInteger([null |-> FALSE, v |-> latest])) = "T"

WithExpired(row, latest) ==
  [key_hash |-> row.key_hash, durability |-> row.durability,
   live_until_ledger_sequence |-> row.live_until_ledger_sequence,
   closed_at |-> row.closed_at, expired |-> Expired(row, latest)]

\* prisma.$queryRaw of a statement: ok is FALSE where the statement fails
ExecuteQuery(query, rows, latest) ==
  LET selected == {r \in rows : EvalCondition(query.where, r) = "T"}
      page == Limit(SortRows(selected, query.orderByInCTE), query.limit)
      final == IF query.cte THEN SortRows(Range(page), query.orderByFinal) ELSE page
  IN IF ConditionTypeError(query.where)
     THEN [ok |-> FALSE, rows |-> <<>>]
     ELSE [ok |-> TRUE, rows |-> [i \in 1..Len(final) |-> WithExpired(final[i], latest)]]

(***************************************************************************)
(* Requests, errors and responses.  A request is the query string of       *)
(* GET /contract/:contract_id/storage for the one contract of the table:   *)
(* limit, order and sort_by are optional texts, cursor is a cursor string. *)
(***************************************************************************)
Query(limit, order, sort_by, cursor) ==
  [limit |-> limit, order |-> order, sort_by |-> sort_by, cursor |-> cursor]

NoQuery == Query(Undefined, Undefined, Undefined, NoCursor)

\* an error: its name, and the values its message is made of
ErrorOf(name, field, value, queryValue, cursorValue, cursor, issues) ==
  [name |-> name, field |-> field, value |-> value, queryValue |-> queryValue,
   cursorValue |-> cursorValue, cursor |-> cursor, issues |-> issues]

NoError == ErrorOf("", "", <<>>, <<>>, Undefined, NoCursor, {})

\* Error(`Invalid limit=${limit}, must be an integer between 1 and 200`)
InvalidLimitError(limit) == ErrorOf("Error", "limit", limit, <<>>, Undefined, NoCursor, {})

\* Error(`Invalid sort_by parameter ${sort_by} must be one of ...`)
InvalidSortByError(sort_by) ==
  ErrorOf("Error", "sort_by", sort_by, <<>>, Undefined, NoCursor, {})

\* InvalidCursorError(`Invalid cursor: ${cursor}`)
InvalidCursorError(cursor) ==
  ErrorOf("InvalidCursorError", "cursor", <<>>, <<>>, Undefined, cursor, {})

\* CursorParameterMismatchError(field, queryValue, cursorValue)
CursorParameterMismatchError(field, queryValue, cursorValue) ==
  ErrorOf("CursorParameterMismatchError", field, <<>>, queryValue, cursorValue, NoCursor, {})

\* the body of the validation middleware: "Invalid query parameters" and
\* the paths of the issues
InvalidQueryParameters(issues) ==
  ErrorOf("InvalidQueryParameters", "query", <<>>, <<>>, Undefined, NoCursor, issues)

\* Error raised by the database driver
QueryFailed == ErrorOf("QueryError", "", <<>>, <<>>, Undefined, NoCursor, {})

NoLink ==
  [def |-> FALSE, order |-> <<>>, limit |-> <<>>, sort_by |-> Undefined, cursor |-> NoCursor]

Link(order, limit, sort_by, cursor) ==
  [def |-> TRUE, order |-> order, limit |-> limit, sort_by |-> sort_by, cursor |-> cursor]

NoLinks == [self |-> NoLink, next |-> NoLink, prev |-> NoLink]

Response(status, error, results, links) ==
  [status |-> status, error |-> error, results |-> results, links |-> links]

NoResponse == Response(0, NoError, <<>>, NoLinks)

(***************************************************************************)
(* parseRequestParams (controllers/contract_data.ts).                      *)
(***************************************************************************)
Min(a, b) == IF a < b THEN a ELSE b

DefaultLimit == <<"2", "0">>

\* the limit check: a non-empty limit is refused when parseInt of it is
\* NaN, below 1 or above 200
LimitRefused(limit) ==
  /\ limit # <<>>
  /\ \/ parseInt(limit).nan
     \/ parseInt(limit).v < 1
     \/ parseInt(limit).v > 200

\* Math.min(parseInt(limit) || 10, 200)
LimitNum(limit) ==
  Min(IF parseInt(limit).nan \/ parseInt(limit).v = 0 THEN 10 ELSE parseInt(limit).v, 200)

\* order === SortDirection.ASC ? SortDirection.ASC : SortDirection.DESC
SortDirectionOf(order) == IF order = ASC THEN ASC ELSE DESC

SortByRefused(sort_by) == sort_by # <<>> /\ ~IsIn(validSortFields, sort_by)

\* C8 fails where a cursor without sortField matches every sort_by
CursorMismatch_WhenNamed(cursorData, sortField) ==
  cursorData.sortField.def /\ cursorData.sortField.v # sortField

\* (cursorData.sortField ?? SortField.KEY_HASH) !== sortField
CursorMismatch(cursorData, sortField) ==
  (IF cursorData.sortField.def THEN cursorData.sortField.v ELSE KEY_HASH) # sortField

NoParams ==
  [cursor |-> NoCursor, hasCursor |-> FALSE,
   cursorData |-> CursorData(NEXT, Undefined, <<>>, SvUndefined),
   limit |-> 0, sortDirection |-> DESC, sortField |-> KEY_HASH, sortDbField |-> "key_hash"]

\* ok is FALSE where parseRequestParams throws error
parseRequestParams(query) ==
  LET cursor == query.cursor
      limit == IF query.limit.def THEN query.limit.v ELSE DefaultLimit
      sort_by == trim(toLowerCase(IF query.sort_by.def THEN query.sort_by.v ELSE KEY_HASH))
      order == trim(toLowerCase(IF query.order.def THEN query.order.v ELSE DESC))
      sortField == IF sort_by # <<>> THEN sort_by ELSE KEY_HASH
      hasCursor == cursor.kind # "none"
      decoded == decodeCursor(cursor)
      failed(error) == [ok |-> FALSE, error |-> error, params |-> NoParams]
  IN IF LimitRefused(limit) THEN failed(InvalidLimitError(limit))
     ELSE IF SortByRefused(sort_by) THEN failed(InvalidSortByError(sort_by))
     ELSE IF hasCursor /\ ~decoded.ok THEN failed(InvalidCursorError(cursor))
     ELSE IF hasCursor /\ CursorMismatch(decoded.data, sortField)
     THEN failed(CursorParameterMismatchError("sort_by", sortField,
                                              decoded.data.sortField))
     ELSE [ok |-> TRUE, error |-> NoError,
           params |-> [cursor |-> cursor, hasCursor |-> hasCursor,
                       cursorData |-> decoded.data,
                       limit |-> LimitNum(limit),
                       sortDirection |-> SortDirectionOf(order),
                       sortField |-> sortField,
                       sortDbField |-> APIFieldToDBFieldMap(sortField)]]

(***************************************************************************)
(* The pagination link builder (pagination/contract_data.ts) and the       *)
(* result serializer (serializers/contract_data.ts).                       *)
(***************************************************************************)
\* Math.floor(date.getTime() / 1000)
UnixSeconds(ms) == ms \div 1000

extractSortValue(record, sortDbField) ==
  CASE sortDbField = "closed_at" -> SvNumber(UnixSeconds(record.closed_at))
    [] sortDbField = "durability" -> SvString(record.durability)
    [] sortDbField = "live_until_ledger_sequence" ->
         IF record.live_until_ledger_sequence.null THEN SvNull
         ELSE SvNumber(record.live_until_ledger_sequence.v)
    [] OTHER -> SvString(record.key_hash)

\* C6 fails where a page of exactly limit rows has no next link
NextLinkPresent_Above(length, limit) == length > limit

\* results.length >= limit
NextLinkPresent(length, limit) == length >= limit

\* C7 fails where every page with rows has a prev link
PrevLinkPresent_AnyPage(hasCursor, length) == length > 0

\* cursor && results.length > 0
PrevLinkPresent(hasCursor, length) == hasCursor /\ length > 0

\* the cursor of a link: its type and the row it is taken from
LinkCursor(cursorType, record, sortField, sortDbField) ==
  encodeCursor(CursorData(cursorType,
                          IF sortField # KEY_HASH THEN Defined(sortField) ELSE Undefined,
                          record.key_hash,
                          IF sortField # KEY_HASH THEN extractSortValue(record, sortDbField)
                          ELSE SvUndefined))

\* C28 fails where an empty page fetched by a cursor has a prev link, back
\* to the cursor it was fetched by
buildPaginationLinks_LinkBack(requestParams, results) ==
  LET order == requestParams.sortDirection
      limit == NumberToString(requestParams.limit)
      sort_by == IF requestParams.sortField # KEY_HASH
                 THEN Defined(requestParams.sortField) ELSE Undefined
  IN [self |-> Link(order, limit, sort_by, requestParams.cursor),
      next |-> IF NextLinkPresent(Len(results), requestParams.limit)
               THEN Link(order, limit, sort_by,
                         LinkCursor(NEXT, results[Len(results)], requestParams.sortField,
                                    requestParams.sortDbField))
               ELSE NoLink,
      prev |-> IF ~requestParams.hasCursor THEN NoLink
               ELSE IF results = <<>> THEN Link(order, limit, sort_by, requestParams.cursor)
               ELSE Link(order, limit, sort_by,
                         LinkCursor(PREV, results[1], requestParams.sortField,
                                    requestParams.sortDbField))]

buildPaginationLinks(requestParams, results) ==
  LET order == requestParams.sortDirection
      limit == NumberToString(requestParams.limit)
      sort_by == IF requestParams.sortField # KEY_HASH
                 THEN Defined(requestParams.sortField) ELSE Undefined
      lastRecord == results[Len(results)]
      firstRecord == results[1]
  IN [self |-> Link(order, limit, sort_by, requestParams.cursor),
      next |-> IF NextLinkPresent(Len(results), requestParams.limit)
               THEN Link(order, limit, sort_by,
                         LinkCursor(NEXT, lastRecord, requestParams.sortField,
                                    requestParams.sortDbField))
               ELSE NoLink,
      prev |-> IF PrevLinkPresent(requestParams.hasCursor, Len(results))
               THEN Link(order, limit, sort_by,
                         LinkCursor(PREV, firstRecord, requestParams.sortField,
                                    requestParams.sortDbField))
               ELSE NoLink]

\* the key and value payloads of a row take no part in paging and are left out
serializeContractDataResults(results) ==
  [i \in 1..Len(results) |->
     [durability |-> results[i].durability,
      expired |-> results[i].expired,
      key_hash |-> results[i].key_hash,
      ttl |-> results[i].live_until_ledger_sequence,
      updated |-> UnixSeconds(results[i].closed_at)]]

(***************************************************************************)
(* The controller getContractDataByContractId and, in front of it on the   *)
(* route, the validation middleware of requestQuerySchema                  *)
(* (routes/contract_data.ts).                                              *)
(***************************************************************************)
\* the collaborators of a request: whether the ledger-state service
\* answers and whether the database executes the statement
AllUp == [ledgerUp |-> TRUE, storageUp |-> TRUE]

Collaborators == [ledgerUp : BOOLEAN, storageUp : BOOLEAN]

\* what a handler does besides computing: a call of the ledger-state
\* service, a statement handed to the database, a response sent
NoConfig ==
  [cursorData |-> CursorData(NEXT, Undefined, <<>>, SvUndefined), hasCursor |-> FALSE,
   limit |-> 0, sortDbField |-> "", sortDirection |-> <<>>, sortField |-> <<>>]

LedgerCall == [call |-> "getLatestLedger", config |-> NoConfig, status |-> 0]

QueryCall(config) == [call |-> "queryRaw", config |-> config, status |-> 0]

Send(status) == [call |-> "res.json", config |-> NoConfig, status |-> status]

\* Error thrown by ledgerService.getLatestLedger
LedgerFailed == ErrorOf("LedgerError", "", <<>>, <<>>, Undefined, NoCursor, {})

ConfigOf(requestParams) ==
  [cursorData |-> requestParams.cursorData,
   hasCursor |-> requestParams.hasCursor,
   limit |-> requestParams.limit,
   sortDbField |-> requestParams.sortDbField,
   sortDirection |-> requestParams.sortDirection,
   sortField |-> requestParams.sortField]

\* ok is FALSE where getContractData throws: the ledger lookup comes
\* first, then the statement is built and executed
getContractData(requestParams, rows, latest, up) ==
  IF ~up.ledgerUp
  THEN [ok |-> FALSE, error |-> LedgerFailed, rows |-> <<>>, effects |-> <<LedgerCall>>]
  ELSE IF ~up.storageUp
          \/ ~ExecuteQuery(buildContractDataQuery(ConfigOf(requestParams)), rows, latest).ok
  THEN [ok |-> FALSE, error |-> QueryFailed, rows |-> <<>>,
        effects |-> <<LedgerCall, QueryCall(ConfigOf(requestParams))>>]
  ELSE [ok |-> TRUE, error |-> NoError,
        rows |-> ExecuteQuery(buildContractDataQuery(ConfigOf(requestParams)), rows, latest).rows,
        effects |-> <<LedgerCall, QueryCall(ConfigOf(requestParams))>>]

\* the response of the handler and the calls it made on the way
getContractDataByContractId(query, rows, latest, up) ==
  LET parsed == parseRequestParams(query)
      contractData == getContractData(parsed.params, rows, latest, up)
  IN IF ~parsed.ok
     THEN [response |-> Response(400, parsed.error, <<>>, NoLinks), effects |-> <<Send(400)>>]
     ELSE IF ~contractData.ok
     THEN [response |-> Response(500, contractData.error, <<>>, NoLinks),
           effects |-> Append(contractData.effects, Send(500))]
     ELSE [response |-> Response(200, NoError, serializeContractDataResults(contractData.rows),
                                 buildPaginationLinks(parsed.params, contractData.rows)),
           effects |-> Append(contractData.effects, Send(200))]

\* limit: z.coerce.number().int().min(1).max(200).default(20)
LimitSchemaAccepts(limit) ==
  \/ ~limit.def
  \/ LET n == StringToNumber(limit.v) IN ~n.nan /\ n.int /\ n.v >= 1 /\ n.v <= 200

\* order: z.enum(["asc", "desc"]).default("desc")
OrderSchemaAccepts(order) == ~order.def \/ order.v \in {ASC, DESC}

\* sort_by: z.enum(["durability", "key_hash", "ttl", "updated_at"]).optional()
SortBySchemaAccepts(sort_by) == ~sort_by.def \/ IsIn(validSortFields, sort_by.v)

\* the paths requestQuerySchema.safeParse reports; cursor is any string
requestQuerySchemaIssues(query) ==
  {p \in {"limit", "order", "sort_by"} :
     \/ p = "limit" /\ ~LimitSchemaAccepts(query.limit)
     \/ p = "order" /\ ~OrderSchemaAccepts(query.order)
     \/ p = "sort_by" /\ ~SortBySchemaAccepts(query.sort_by)}

\* validateParamsMiddleware(requestQuerySchema, "query") and then the
\* controller, which reads the query as the client sent it
RouteHandler(query, rows, latest, up) ==
  IF requestQuerySchemaIssues(query) # {}
  THEN [response |-> Response(400, InvalidQueryParameters(requestQuerySchemaIssues(query)),
                              <<>>, NoLinks),
        effects |-> <<Send(400)>>]
  ELSE getContractDataByContractId(query, rows, latest, up)

(***************************************************************************)
(* utils/stellar.ts: StellarService.  The constructor picks the upstream   *)
(* fetch (the RPC server of testnet, the RPC server of pubnet, or Horizon  *)
(* where pubnet has no RPC URL); getLatestLedger answers from the cache or *)
(* awaits that fetch.  A call is at "idle", "awaiting" (its fetch is out), *)
(* "returned" or "rejected"; atMs is Date.now() when it was made, asked    *)
(* the ledger of the network when its fetch went out (0 where it made      *)
(* none), the upstream answering with a ledger it had between then and its *)
(* answer, error the message of the error it rejected with.                *)
(***************************************************************************)
LATEST_LEDGER_CACHE_TTL_MS == 5000

NotCached == [def |-> FALSE, v |-> 0]

Cached(v) == [def |-> TRUE, v |-> v]

\* networkPassphrase and whether an rpcUrl is configured
StellarServiceConfigs == [networkPassphrase : {"TESTNET", "PUBLIC"}, rpcUrl : BOOLEAN]

\* the fetch the constructor binds
FetchOf(config) ==
  IF config.networkPassphrase = "TESTNET" THEN "testnetRpcClient.getLatestLedger"
  ELSE IF config.rpcUrl THEN "pubnetRpcClient.getLatestLedger"
  ELSE "pubnetHorizonClient.root"

\* the callers of the service
Callers == {"first", "second"}

\* the first ledger the upstream answers with
FirstLedger == 111

\* the times the clock is set to: the ends of the cache lifetimes, and one
\* millisecond before and after each
SystemTimes ==
  {k * LATEST_LEDGER_CACHE_TTL_MS + d : k \in 0..MaxWindows, d \in {0 - 1, 0, 1}} \cap Nat

NoCall == [pc |-> "idle", atMs |-> 0, asked |-> 0, result |-> 0, error |-> ""]

\* a caller that handles no request: pc is "idle", then "getLatestLedger"
\* and "queryRaw" while the handler awaits the one and the other, and
\* "responded"; latest is the ledger it was answered
NoRequest == [pc |-> "idle", query |-> NoQuery, up |-> AllUp, latest |-> 0, response |-> NoResponse]

\* the errors an upstream call fails with
UpstreamErrors == {"RPC connection failed", "Horizon unreachable"}

\* C20 fails where a value cached exactly the lifetime ago is no longer served
getCachedLatestLedger_Early(sequence, atMs, clock) ==
  IF ~sequence.def \/ ~atMs.def \/ clock - atMs.v >= LATEST_LEDGER_CACHE_TTL_MS
  THEN NotCached
  ELSE sequence

getCachedLatestLedger(sequence, atMs, clock) ==
  IF ~sequence.def \/ ~atMs.def \/ clock - atMs.v > LATEST_LEDGER_CACHE_TTL_MS
  THEN NotCached
  ELSE sequence

\* new StellarService(config)
constructor(config) ==
  /\ fetchLatestLedger = FetchOf(config)
  /\ cachedLatestLedgerSequence = NotCached
  /\ cachedLatestLedgerAtMs = NotCached

\* the service as the endpoint's walks leave it: constructed, never called
ServiceAtRest ==
  /\ now = 0
  /\ constructor([networkPassphrase |-> "TESTNET", rpcUrl |-> FALSE])
  /\ networkLedger = FirstLedger
  /\ upstreamCalls = 0
  /\ calls = [c \in Callers |-> NoCall]

(***************************************************************************)
(* The client.  A walk asks for the first page of the contract under some  *)
(* sort field, order and limit, follows the next link of each page until a *)
(* page is empty or has no next link, and then follows the prev links back *)
(* from the last non-empty page.  pages holds the non-empty pages of the   *)
(* forward walk, pos the index in pages of the page a backward step is     *)
(* expected to return.                                                     *)
(***************************************************************************)
Init ==
  /\ table \in Tables
  /\ latestLedgerSequence \in LedgerSequences
  /\ collaborators = AllUp
  /\ req = NoQuery
  /\ resp = NoResponse
  /\ effects = <<>>
  /\ mode = "idle"
  /\ pages = <<>>
  /\ pos = 0
  /\ inflight = [c \in Callers |-> NoRequest]
  /\ ServiceAtRest

\* the sort_by values a walk is started with; none is the default, key_hash
WalkSortBys == {Undefined, Defined(DURABILITY), Defined(TTL), Defined(UPDATED_AT)}

WalkOrders == {Defined(ASC), Defined(DESC)}

WalkLimits == {Defined(NumberToString(n)) : n \in 1..MaxLimit}

IsPage(response) == response.status = 200 /\ response.results # <<>>

\* the request a client makes of a link of a response
QueryOfLink(link) == Query(Defined(link.limit), Defined(link.order), link.sort_by, link.cursor)

FirstPage(sort_by, order, limit) ==
  /\ mode = "idle"
  /\ req' = Query(limit, order, sort_by, NoCursor)
  /\ \E handled \in {RouteHandler(req', table, latestLedgerSequence, AllUp)} :
       resp' = handled.response /\ effects' = handled.effects
  /\ mode' = "forward"
  /\ pages' = IF IsPage(resp') THEN <<resp'>> ELSE <<>>
  /\ UNCHANGED <<table, latestLedgerSequence, collaborators, pos, inflight>>
  /\ UNCHANGED serviceVars

FollowNext ==
  /\ mode = "forward"
  /\ IsPage(resp)
  /\ resp.links.next.def
  /\ Len(pages) < MaxPages
  /\ req' = QueryOfLink(resp.links.next)
  /\ \E handled \in {RouteHandler(req', table, latestLedgerSequence, AllUp)} :
       resp' = handled.response /\ effects' = handled.effects
  /\ pages' = IF IsPage(resp') THEN Append(pages, resp') ELSE pages
  /\ UNCHANGED <<table, latestLedgerSequence, collaborators, mode, pos, inflight>>
  /\ UNCHANGED serviceVars

\* the forward walk is over: the page is empty or has no next link
ForwardEnded ==
  /\ mode = "forward"
  /\ resp.status = 200
  /\ resp.results = <<>> \/ ~resp.links.next.def

\* the page a backward step starts from
BackwardFrom == IF mode = "forward" THEN pages[Len(pages)] ELSE resp

FollowPrev ==
  /\ \/ ForwardEnded /\ Len(pages) >= 2
     \/ mode = "backward" /\ resp.status = 200 /\ pos >= 2
  /\ BackwardFrom.links.prev.def
  /\ req' = QueryOfLink(BackwardFrom.links.prev)
  /\ \E handled \in {RouteHandler(req', table, latestLedgerSequence, AllUp)} :
       resp' = handled.response /\ effects' = handled.effects
  /\ mode' = "backward"
  /\ pos' = IF mode = "forward" THEN Len(pages) - 1 ELSE pos - 1
  /\ UNCHANGED <<table, latestLedgerSequence, collaborators, pages, inflight>>
  /\ UNCHANGED serviceVars

Next ==
  \/ \E sort_by \in WalkSortBys, order \in WalkOrders, limit \in WalkLimits :
       FirstPage(sort_by, order, limit)
  \/ FollowNext
  \/ FollowPrev

Spec == Init /\ [][Next]_vars

(***************************************************************************)
(* Single requests with any parameters, over the scenario table: sent to   *)
(* the route, or handed to the controller directly as the repository's     *)
(* controller tests do.                                                    *)
(***************************************************************************)
LimitTexts ==
  {Undefined, Defined(<<>>), Defined(<<"1">>), Defined(<<"2">>), Defined(<<"2", "0", "0">>),
   Defined(<<"2", "0", "1">>), Defined(<<"0">>), Defined(<<"-", "1">>),
   Defined(<<"i", "n", "v", "a", "l", "i", "d">>), Defined(<<"5", "a", "b", "c">>),
   Defined(<<"1", ".", "5">>), Defined(<<"1", "e", "2">>), Defined(<<" ", "7">>)}

OrderTexts ==
  {Undefined, Defined(ASC), Defined(DESC), Defined(<<"A", "S", "C">>),
   Defined(<<" ", "a", "s", "c">>), Defined(<<"i", "n", "v", "a", "l", "i", "d", "_", "o", "r", "d", "e", "r">>)}

SortByTexts ==
  {Undefined, Defined(DURABILITY), Defined(KEY_HASH), Defined(TTL), Defined(UPDATED_AT),
   Defined(<<"T", "T", "L">>), Defined(<<"i", "n", "v", "a", "l", "i", "d", "_", "f", "i", "e", "l", "d">>)}

\* "e30=", the JSON object {}
EmptyObjectCursor ==
  [kind |-> "json", cursorType |-> Undefined, sortField |-> Undefined,
   position |-> FALSE, keyHash |-> Undefined, sortValue |-> SvUndefined]

\* a sort field no column answers to
UnknownSortField == <<"n", "o", "n", "e", "x", "i", "s", "t", "e", "n", "t", "_", "f", "i", "e", "l", "d">>

\* cursors written by hand, as rawCursor of the controller tests does: the
\* object {}, an unknown sortField, a sortValue of the wrong JSON type for
\* its field, no sortValue, and a null sortValue
HandMadeCursors ==
  {EmptyObjectCursor,
   JsonStringify(CursorData(NEXT, Defined(UnknownSortField), KeyHashes[2], SvNumber(1))),
   JsonStringify(CursorData(NEXT, Defined(TTL), KeyHashes[2], SvString(<<"x">>))),
   JsonStringify(CursorData(NEXT, Defined(UPDATED_AT), KeyHashes[2], SvString(<<"x">>))),
   JsonStringify(CursorData(NEXT, Defined(DURABILITY), KeyHashes[2], SvNumber(42))),
   JsonStringify(CursorData(NEXT, Defined(TTL), KeyHashes[2], SvUndefined)),
   JsonStringify(CursorData(NEXT, Defined(TTL), KeyHashes[2], SvNull)),
   JsonStringify(CursorData(NEXT, Defined(UPDATED_AT), KeyHashes[2], SvNull)),
   JsonStringify(CursorData(NEXT, Defined(DURABILITY), KeyHashes[2], SvNull))}

\* cursor data whose sortValue is a bigint, which encodeCursor stringifies
BigIntCursorData == {CursorData(NEXT, Defined(TTL), KeyHashes[3], SvBigInt(901))}

\* cursors a client may present: none, text that is no cursor, the key_hash
\* cursor of the controller tests, and cursors the link builder issues for
\* rows of the scenario table
CursorTexts ==
  {NoCursor, GarbageCursor,
   encodeCursor(CursorData(NEXT, Undefined, <<"1", "1", "4", "5", "8", "5", "5", "0", "9">>, SvUndefined)),
   encodeCursor(CursorData(NEXT, Undefined, KeyHashes[2], SvUndefined)),
   encodeCursor(CursorData(NEXT, Defined(TTL), KeyHashes[3], SvNumber(901))),
   encodeCursor(CursorData(PREV, Defined(TTL), KeyHashes[1], SvNull)),
   encodeCursor(CursorData(NEXT, Defined(UPDATED_AT), KeyHashes[4], SvNumber(2))),
   encodeCursor(CursorData(PREV, Defined(DURABILITY), KeyHashes[4], SvString(DUR_PERSISTENT)))}
  \cup HandMadeCursors \cup {encodeCursor(c) : c \in BigIntCursorData}

\* the requests made: every limit, order and sort_by without cursor and
\* with a key_hash cursor, and every cursor with every sort_by under a few
\* limits and orders
Queries ==
  {Query(limit, order, sort_by, cursor) :
     limit \in LimitTexts, order \in OrderTexts, sort_by \in SortByTexts,
     cursor \in {NoCursor, encodeCursor(CursorData(NEXT, Undefined, KeyHashes[2], SvUndefined))}}
  \cup
  {Query(limit, order, sort_by, cursor) :
     limit \in {Undefined, Defined(<<"1">>), Defined(<<"i", "n", "v", "a", "l", "i", "d">>)},
     order \in {Undefined, Defined(ASC)}, sort_by \in SortByTexts, cursor \in CursorTexts}

InitParams ==
  /\ table = ScenarioTable
  /\ latestLedgerSequence \in LedgerSequences
  /\ collaborators = AllUp
  /\ req = NoQuery
  /\ resp = NoResponse
  /\ effects = <<>>
  /\ mode = "idle"
  /\ pages = <<>>
  /\ pos = 0
  /\ inflight = [c \in Callers |-> NoRequest]
  /\ ServiceAtRest

RouteRequest ==
  /\ mode = "idle"
  /\ \E query \in Queries, up \in Collaborators :
       /\ req' = query
       /\ collaborators' = up
       /\ \E handled \in {RouteHandler(query, table, latestLedgerSequence, up)} :
            resp' = handled.response /\ effects' = handled.effects
  /\ mode' = "route"
  /\ UNCHANGED <<table, latestLedgerSequence, pages, pos, inflight>>
  /\ UNCHANGED serviceVars

ControllerCall ==
  /\ mode = "idle"
  /\ \E query \in Queries, up \in Collaborators :
       /\ req' = query
       /\ collaborators' = up
       /\ \E handled \in {getContractDataByContractId(query, table, latestLedgerSequence, up)} :
            resp' = handled.response /\ effects' = handled.effects
  /\ mode' = "controller"
  /\ UNCHANGED <<table, latestLedgerSequence, pages, pos, inflight>>
  /\ UNCHANGED serviceVars

NextParams ==
  \/ RouteRequest
  \/ ControllerCall

ParamSpec == InitParams /\ [][NextParams]_vars

(***************************************************************************)
(* The ledger-state service on its own: callers call getLatestLedger while *)
(* the clock is moved, the network closes ledgers, and the fetches that    *)
(* are out are answered or fail, in any order.                             *)
(***************************************************************************)
InitService ==
  /\ table = {}
  /\ latestLedgerSequence = FirstLedger
  /\ collaborators = AllUp
  /\ req = NoQuery
  /\ resp = NoResponse
  /\ effects = <<>>
  /\ mode = "service"
  /\ pages = <<>>
  /\ pos = 0
  /\ inflight = [c \in Callers |-> NoRequest]
  /\ now = 0
  /\ \E config \in StellarServiceConfigs : constructor(config)
  /\ networkLedger = FirstLedger
  /\ upstreamCalls = 0
  /\ calls = [c \in Callers |-> NoCall]

\* jest.setSystemTime(t): the clock does not run backward
SetSystemTime(t) ==
  /\ t > now
  /\ now' = t
  /\ UNCHANGED <<cachedLatestLedgerSequence, cachedLatestLedgerAtMs, fetchLatestLedger, networkLedger, upstreamCalls, calls>>
  /\ UNCHANGED endpointVars

\* the network closes a ledger
LedgerCloses ==
  /\ networkLedger < FirstLedger + MaxLedgers
  /\ networkLedger' = networkLedger + 1
  /\ UNCHANGED <<now, cachedLatestLedgerSequence, cachedLatestLedgerAtMs, fetchLatestLedger, upstreamCalls, calls>>
  /\ UNCHANGED endpointVars

\* getLatestLedger up to its return or its await
GetLatestLedger(c) ==
  /\ calls[c].pc # "awaiting"
  /\ IF getCachedLatestLedger(cachedLatestLedgerSequence, cachedLatestLedgerAtMs, now).def
     THEN /\ calls' = [calls EXCEPT ![c] =
                         [pc |-> "returned", atMs |-> now, asked |-> 0,
                          result |-> getCachedLatestLedger(cachedLatestLedgerSequence,
                                                           cachedLatestLedgerAtMs, now).v,
                          error |-> ""]]
          /\ UNCHANGED upstreamCalls
     ELSE /\ upstreamCalls < MaxFetches
          /\ upstreamCalls' = upstreamCalls + 1
          /\ calls' = [calls EXCEPT ![c] =
                         [pc |-> "awaiting", atMs |-> now, asked |-> networkLedger, result |-> 0,
                          error |-> ""]]
  /\ UNCHANGED <<now, cachedLatestLedgerSequence, cachedLatestLedgerAtMs, fetchLatestLedger, networkLedger>>
  /\ UNCHANGED endpointVars

\* C30 fails where a fetch that resolves with an older sequence than the
\* cached one leaves the cache as it is
FetchResolves_KeepNewest(c) ==
  /\ calls[c].pc = "awaiting"
  /\ \E latest \in calls[c].asked..networkLedger :
       /\ calls' = [calls EXCEPT ![c].pc = "returned", ![c].result = latest]
       /\ IF cachedLatestLedgerSequence.def /\ cachedLatestLedgerSequence.v > latest
          THEN UNCHANGED <<cachedLatestLedgerSequence, cachedLatestLedgerAtMs>>
          ELSE /\ cachedLatestLedgerSequence' = Cached(latest)
               /\ cachedLatestLedgerAtMs' = Cached(now)
  /\ UNCHANGED <<now, fetchLatestLedger, networkLedger, upstreamCalls>>
  /\ UNCHANGED endpointVars

\* the fetch of a call resolves: getLatestLedger stores the sequence and
\* Date.now() and returns the sequence
FetchResolves(c) ==
  /\ calls[c].pc = "awaiting"
  /\ \E latest \in calls[c].asked..networkLedger :
       /\ cachedLatestLedgerSequence' = Cached(latest)
       /\ calls' = [calls EXCEPT ![c].pc = "returned", ![c].result = latest]
  /\ cachedLatestLedgerAtMs' = Cached(now)
  /\ UNCHANGED <<now, fetchLatestLedger, networkLedger, upstreamCalls>>
  /\ UNCHANGED endpointVars

\* C21 fails where a failed fetch empties the cache
FetchRejects_Forgetting(c) ==
  /\ calls[c].pc = "awaiting"
  /\ \E error \in UpstreamErrors : calls' = [calls EXCEPT ![c].pc = "rejected", ![c].error = error]
  /\ cachedLatestLedgerSequence' = NotCached
  /\ cachedLatestLedgerAtMs' = NotCached
  /\ UNCHANGED <<now, fetchLatestLedger, networkLedger, upstreamCalls>>
  /\ UNCHANGED endpointVars

\* the fetch of a call rejects: getLatestLedger rejects with its error
FetchRejects(c) ==
  /\ calls[c].pc = "awaiting"
  /\ \E error \in UpstreamErrors : calls' = [calls EXCEPT ![c].pc = "rejected", ![c].error = error]
  /\ UNCHANGED <<now, cachedLatestLedgerSequence, cachedLatestLedgerAtMs, fetchLatestLedger, networkLedger, upstreamCalls>>
  /\ UNCHANGED endpointVars

NextService ==
  \/ \E t \in SystemTimes : SetSystemTime(t)
  \/ LedgerCloses
  \/ \E c \in Callers : GetLatestLedger(c)
  \/ \E c \in Callers : FetchResolves(c)
  \/ \E c \in Callers : FetchRejects(c)

CacheSpec == InitService /\ [][NextService]_vars

(***************************************************************************)
(* The query builder called on its own: buildContractDataQuery is given a  *)
(* configuration with a ttl cursor, whose sort value may be null, and the  *)
(* statement is executed on the table.  effects keeps the configuration,   *)
(* resp the rows returned.                                                 *)
(***************************************************************************)
\* a limit no page of the model reaches
WholeTable == 200

BuilderConfigs ==
  {[cursorData |-> CursorData(cursorType, Defined(TTL), keyHash, sortValue),
    hasCursor |-> TRUE, limit |-> limit, sortDbField |-> APIFieldToDBFieldMap(TTL),
    sortDirection |-> sortDirection, sortField |-> TTL] :
     cursorType \in {NEXT, PREV}, keyHash \in Range(KeyHashes),
     sortValue \in {SvNull, SvNumber(901), SvNumber(902), SvNumber(903)},
     limit \in {1, WholeTable}, sortDirection \in {ASC, DESC}}

BuildQuery(config) ==
  /\ mode = "idle"
  /\ mode' = "builder"
  /\ effects' = <<QueryCall(config)>>
  /\ \E executed \in {ExecuteQuery(buildContractDataQuery(config), table, latestLedgerSequence)} :
       resp' = Response(200, NoError, serializeContractDataResults(executed.rows), NoLinks)
  /\ UNCHANGED <<table, latestLedgerSequence, collaborators, req, pages, pos, inflight>>
  /\ UNCHANGED serviceVars

NextBuilder == \E config \in BuilderConfigs : BuildQuery(config)

BuilderSpec == Init /\ [][NextBuilder]_vars

(***************************************************************************)
(* Requests handled at the same time.  getContractDataByContractId is an   *)
(* async function: it parses the request and either answers 400 or awaits  *)
(* getStellarService().getLatestLedger(), then awaits prisma.$queryRaw of  *)
(* the statement built from its own parameters and the ledger it was       *)
(* answered, then responds; between its awaits the handlers of other       *)
(* requests run.  The ledger-state service answers each handler with the   *)
(* ledger it has then.                                                     *)
(***************************************************************************)
ConcurrentQueries ==
  {Query(limit, order, sc[1], sc[2]) :
     limit \in {Defined(<<"1">>), Defined(<<"2">>)},
     order \in {Defined(ASC), Defined(DESC)},
     sc \in {<<Undefined, NoCursor>>,
             <<Undefined, encodeCursor(CursorData(NEXT, Undefined, KeyHashes[2], SvUndefined))>>,
             <<Defined(TTL), NoCursor>>,
             <<Defined(TTL), encodeCursor(CursorData(NEXT, Defined(TTL), KeyHashes[3], SvNumber(901)))>>,
             <<Defined(UPDATED_AT), GarbageCursor>>,
             <<Defined(<<"T", "T", "L">>), NoCursor>>}}

\* C23 fails where the statement is built from the parameters of the
\* request another handler is working on
HandlerStep_SharedParams(c) ==
  /\ \/ /\ inflight[c].pc = "idle"
        /\ \E query \in ConcurrentQueries, up \in Collaborators :
             inflight' =
               [inflight EXCEPT ![c] =
                  IF requestQuerySchemaIssues(query) # {}
                  THEN [NoRequest EXCEPT !.pc = "responded", !.query = query, !.up = up,
                          !.response = Response(400, InvalidQueryParameters(requestQuerySchemaIssues(query)), <<>>, NoLinks)]
                  ELSE IF ~parseRequestParams(query).ok
                  THEN [NoRequest EXCEPT !.pc = "responded", !.query = query, !.up = up,
                          !.response = Response(400, parseRequestParams(query).error, <<>>, NoLinks)]
                  ELSE [NoRequest EXCEPT !.pc = "getLatestLedger", !.query = query, !.up = up]]
     \/ /\ inflight[c].pc = "getLatestLedger"
        /\ \E latest \in LedgerSequences \cup {l + 1 : l \in LedgerSequences} :
             inflight' =
               [inflight EXCEPT ![c] =
                  IF ~inflight[c].up.ledgerUp
                  THEN [@ EXCEPT !.pc = "responded",
                                 !.response = Response(500, LedgerFailed, <<>>, NoLinks)]
                  ELSE [@ EXCEPT !.pc = "queryRaw", !.latest = latest]]
     \/ /\ inflight[c].pc = "queryRaw"
        /\ \E executed \in {ExecuteQuery(buildContractDataQuery(ConfigOf(IF \E d \in Callers \ {c} : inflight[d].pc \in {"getLatestLedger", "queryRaw"}
                                                                 THEN parseRequestParams(inflight[CHOOSE d \in Callers \ {c} : inflight[d].pc \in {"getLatestLedger", "queryRaw"}].query).params
                                                                 ELSE parseRequestParams(inflight[c].query).params)),
                                         table, inflight[c].latest)} :
             inflight' =
               [inflight EXCEPT ![c] =
                  IF ~inflight[c].up.storageUp \/ ~executed.ok
                  THEN [@ EXCEPT !.pc = "responded",
                                 !.response = Response(500, QueryFailed, <<>>, NoLinks)]
                  ELSE [@ EXCEPT !.pc = "responded",
                                 !.response =
                                   Response(200, NoError, serializeContractDataResults(executed.rows),
                                            buildPaginationLinks(parseRequestParams(inflight[c].query).params,
                                                                 executed.rows))]]
  /\ UNCHANGED <<table, latestLedgerSequence, collaborators, req, resp, effects, mode, pages, pos>>
  /\ UNCHANGED serviceVars

HandlerStep(c) ==
  /\ \/ /\ inflight[c].pc = "idle"
        /\ \E query \in ConcurrentQueries, up \in Collaborators :
             inflight' =
               [inflight EXCEPT ![c] =
                  IF requestQuerySchemaIssues(query) # {}
                  THEN [NoRequest EXCEPT !.pc = "responded", !.query = query, !.up = up,
                          !.response = Response(400, InvalidQueryParameters(requestQuerySchemaIssues(query)), <<>>, NoLinks)]
                  ELSE IF ~parseRequestParams(query).ok
                  THEN [NoRequest EXCEPT !.pc = "responded", !.query = query, !.up = up,
                          !.response = Response(400, parseRequestParams(query).error, <<>>, NoLinks)]
                  ELSE [NoRequest EXCEPT !.pc = "getLatestLedger", !.query = query, !.up = up]]
     \/ /\ inflight[c].pc = "getLatestLedger"
        /\ \E latest \in LedgerSequences \cup {l + 1 : l \in LedgerSequences} :
             inflight' =
               [inflight EXCEPT ![c] =
                  IF ~inflight[c].up.ledgerUp
                  THEN [@ EXCEPT !.pc = "responded",
                                 !.response = Response(500, LedgerFailed, <<>>, NoLinks)]
                  ELSE [@ EXCEPT !.pc = "queryRaw", !.latest = latest]]
     \/ /\ inflight[c].pc = "queryRaw"
        /\ \E executed \in {ExecuteQuery(buildContractDataQuery(ConfigOf(parseRequestParams(inflight[c].query).params)),
                                         table, inflight[c].latest)} :
             inflight' =
               [inflight EXCEPT ![c] =
                  IF ~inflight[c].up.storageUp \/ ~executed.ok
                  THEN [@ EXCEPT !.pc = "responded",
                                 !.response = Response(500, QueryFailed, <<>>, NoLinks)]
                  ELSE [@ EXCEPT !.pc = "responded",
                                 !.response =
                                   Response(200, NoError, serializeContractDataResults(executed.rows),
                                            buildPaginationLinks(parseRequestParams(inflight[c].query).params,
                                                                 executed.rows))]]
  /\ UNCHANGED <<table, latestLedgerSequence, collaborators, req, resp, effects, mode, pages, pos>>
  /\ UNCHANGED serviceVars

NextConcurrent == \E c \in Callers : HandlerStep(c)

ConcurrentSpec == InitParams /\ [][NextConcurrent]_vars

(***************************************************************************)
(* What the properties below speak of: the sort field, order and limit a   *)
(* request asks for, the key hashes of pages, and the order the rows of a  *)
(* table have under (sort_field, key_hash) in a direction, where a row     *)
(* without ttl sorts after every row with one.                             *)
(***************************************************************************)
RequestedSortField == IF req.sort_by.def THEN req.sort_by.v ELSE KEY_HASH

RequestedOrder == IF req.order.def THEN req.order.v ELSE DESC

IsIntegerLiteral(text) ==
  /\ Unsigned(text) # <<>>
  /\ \A i \in 1..Len(Unsigned(text)) : IsDigit(Unsigned(text)[i])

IntegerDenoted(text) ==
  IF Head(text) = "-" THEN 0 - DigitsValue(Unsigned(text), 0) ELSE DigitsValue(Unsigned(text), 0)

RequestedLimit == IntegerDenoted(req.limit.v)

KeysOf(results) == [i \in 1..Len(results) |-> results[i].key_hash]

RECURSIVE ResultsOfPages(_)
ResultsOfPages(pgs) ==
  IF pgs = <<>> THEN <<>> ELSE Head(pgs).results \o ResultsOfPages(Tail(pgs))

IsPrefix(s, t) == Len(s) <= Len(t) /\ s = SubSeq(t, 1, Len(s))

SortFieldLess(sortField, a, b) ==
  CASE sortField = TTL ->
         /\ ~a.live_until_ledger_sequence.null
         /\ \/ b.live_until_ledger_sequence.null
            \/ a.live_until_ledger_sequence.v < b.live_until_ledger_sequence.v
    [] sortField = UPDATED_AT -> a.closed_at < b.closed_at
    [] sortField = DURABILITY -> TextLess(a.durability, b.durability)
    [] OTHER -> FALSE

SortFieldSame(sortField, a, b) ==
  ~SortFieldLess(sortField, a, b) /\ ~SortFieldLess(sortField, b, a)

AscendingBefore(sortField, a, b) ==
  \/ SortFieldLess(sortField, a, b)
  \/ SortFieldSame(sortField, a, b) /\ TextLess(a.key_hash, b.key_hash)

InOrder(sortField, order, a, b) ==
  IF order = ASC THEN AscendingBefore(sortField, a, b) ELSE AscendingBefore(sortField, b, a)

\* the key hashes of the rows in the order (sort_field, key_hash), direction
ExpectedKeys(rows, sortField, order) ==
  [i \in 1..Cardinality(rows) |->
     (CHOOSE r \in rows :
        Cardinality({o \in rows : InOrder(sortField, order, o, r)}) = i - 1).key_hash]

\* rows without ttl after the others ascending, before them descending,
\* and among themselves by key_hash in the direction
NullPlacement(results, order) ==
  \A i, j \in 1..Len(results) :
    i < j =>
      /\ order = ASC => (results[i].ttl.null => results[j].ttl.null)
      /\ order = DESC => (results[j].ttl.null => results[i].ttl.null)
      /\ (results[i].ttl.null /\ results[j].ttl.null) =>
           IF order = ASC THEN TextLess(results[i].key_hash, results[j].key_hash)
           ELSE TextLess(results[j].key_hash, results[i].key_hash)

\* the sort value a link cursor is to carry for a row of a page
SortValueOfRow(sortField, row) ==
  CASE sortField = TTL -> IF row.ttl.null THEN SvNull ELSE SvNumber(row.ttl.v)
    [] sortField = UPDATED_AT -> SvNumber(row.updated)
    [] sortField = DURABILITY -> SvString(row.durability)
    [] OTHER -> SvUndefined

\* a link's cursor is of the type and is taken from the row
CursorTakenFrom(cursor, cursorType, sortField, row) ==
  /\ cursor.kind = "json"
  /\ cursor.cursorType = Defined(cursorType)
  /\ cursor.keyHash = Defined(row.key_hash)
  /\ cursor.sortField = (IF sortField = KEY_HASH THEN Undefined ELSE Defined(sortField))
  /\ cursor.sortValue = SortValueOfRow(sortField, row)

(***************************************************************************)
(* Properties of a traversal (Spec).                                       *)
(***************************************************************************)
\* C1: following next links from the request without cursor until a page
\* is empty or has no next link visits every row of the table exactly
\* once, in the order (sort_field, key_hash) of the requested direction:
\* every request of the walk is answered 200, the rows seen so far are the
\* start of that order, and at the end they are all of it.
C1_TraversalVisitsEveryRowOnce ==
  mode = "forward" =>
    /\ resp.status = 200
    /\ IsPrefix(KeysOf(ResultsOfPages(pages)),
                ExpectedKeys(table, RequestedSortField, RequestedOrder))
    /\ ForwardEnded =>
         KeysOf(ResultsOfPages(pages)) = ExpectedKeys(table, RequestedSortField, RequestedOrder)

\* C2: walking back by prev links from the last non-empty page of a
\* forward walk returns, page for page, the key hashes of the forward
\* pages.
C2_RoundTrip ==
  mode = "backward" =>
    /\ resp.status = 200
    /\ KeysOf(resp.results) = KeysOf(pages[pos].results)

\* C3: under sort_by=ttl every page served, the first and those fetched by
\* next or prev cursors, and the pages of a forward walk taken together,
\* have the rows without ttl after the others for asc and before them for
\* desc, and the rows without ttl in key_hash order of the direction.
C3_NullPlacement ==
  (resp.status = 200 /\ RequestedSortField = TTL) =>
    /\ NullPlacement(resp.results, RequestedOrder)
    /\ mode = "forward" => NullPlacement(ResultsOfPages(pages), RequestedOrder)

\* a page fetched by a next cursor that holds a row with ttl and one without
C3_Witness ==
  /\ mode = "forward"
  /\ resp.status = 200
  /\ RequestedSortField = TTL
  /\ req.cursor.kind = "json"
  /\ \E i, j \in 1..Len(resp.results) : ~resp.results[i].ttl.null /\ resp.results[j].ttl.null

\* C4: on the five rows of the scenario, sort_by=ttl order=asc limit=2
\* returns [901, 902], then by the next cursor [903, null (aa)], then by
\* the next cursor [null (bb)] without next link, and every request of
\* the sequence is answered 200.
C4_TtlScenario ==
  (/\ table = ScenarioTable
   /\ mode = "forward"
   /\ RequestedSortField = TTL
   /\ RequestedOrder = ASC
   /\ RequestedLimit = 2) =>
    /\ resp.status = 200
    /\ Len(pages) >= 1 => KeysOf(pages[1].results) = <<KeyHashes[3], KeyHashes[4]>>
    /\ Len(pages) >= 2 => KeysOf(pages[2].results) = <<KeyHashes[5], KeyHashes[1]>>
    /\ Len(pages) >= 3 =>
         /\ KeysOf(pages[3].results) = <<KeyHashes[2]>>
         /\ ~pages[3].links.next.def
    /\ ForwardEnded => Len(pages) = 3

\* C5: with limit=1 a forward walk over the 5 rows takes exactly 5
\* non-empty pages, the first four with a next link; and any forward walk
\* ends with one empty page when the number of rows is a multiple of the
\* limit, and with a short page without next link otherwise.
C5_ForwardPageCount ==
  mode = "forward" =>
    /\ resp.status = 200
    /\ (ForwardEnded /\ Cardinality(table) = 5 /\ RequestedLimit = 1) =>
         /\ Len(pages) = 5
         /\ \A i \in 1..4 : pages[i].links.next.def
    /\ (ForwardEnded /\ Cardinality(table) % RequestedLimit = 0) => resp.results = <<>>
    /\ (ForwardEnded /\ Cardinality(table) % RequestedLimit # 0) =>
         /\ resp.results # <<>>
         /\ Len(resp.results) < RequestedLimit
         /\ ~resp.links.next.def

\* C6: a page has a next link exactly when it holds at least limit rows,
\* and the cursor of the link is of type next and carries the key_hash and
\* the sort value of the last row of the page (Unix seconds for
\* updated_at; neither sortField nor sortValue under key_hash).
C6_NextLink ==
  resp.status = 200 =>
    /\ resp.links.next.def <=> Len(resp.results) >= RequestedLimit
    /\ resp.links.next.def =>
         CursorTakenFrom(resp.links.next.cursor, NEXT, RequestedSortField,
                         resp.results[Len(resp.results)])

\* a full page under updated_at, and so a next cursor in Unix seconds
C6_Witness ==
  /\ resp.status = 200
  /\ RequestedSortField = UPDATED_AT
  /\ Len(resp.results) = 2
  /\ resp.links.next.def

\* C7: a page has a prev link exactly when the request carried a cursor
\* and the page is not empty, and the cursor of the link is of type prev
\* and carries the key_hash and the sort value of the first row of the
\* page; the page of a request without cursor has none.
C7_PrevLink ==
  resp.status = 200 =>
    /\ resp.links.prev.def <=> (req.cursor.kind # "none" /\ resp.results # <<>>)
    /\ resp.links.prev.def =>
         CursorTakenFrom(resp.links.prev.cursor, PREV, RequestedSortField, resp.results[1])

\* a page fetched by a cursor under durability, with its prev link
C7_Witness ==
  /\ resp.status = 200
  /\ RequestedSortField = DURABILITY
  /\ req.cursor.kind = "json"
  /\ resp.links.prev.def

(***************************************************************************)
(* Properties of single requests (ParamSpec).                              *)
(***************************************************************************)
\* the sort field parseRequestParams works with: sort_by in lower case and
\* trimmed, key_hash when there is none
EffectiveSortBy == trim(toLowerCase(RequestedSortField))

\* the sortField of the cursor of the request, key_hash when it has none
CursorSortField == IF req.cursor.sortField.def THEN req.cursor.sortField.v ELSE KEY_HASH

\* C8: a request with a cursor that decodes and whose sortField (key_hash
\* when absent) is not the request's sort_by is answered 400, and where
\* its limit and sort_by are valid the error is CursorParameterMismatch
\* for the field "sort_by" with the value of the query and the value of
\* the cursor.
C8_CursorSortFieldMismatch ==
  (/\ mode = "controller"
   /\ decodeCursor(req.cursor).ok
   /\ CursorSortField # EffectiveSortBy) =>
    /\ resp.status = 400
    /\ resp.error.field \notin {"limit", "sort_by"} \/ resp.error.name # "Error" =>
         resp.error = CursorParameterMismatchError("sort_by",
                                                   EffectiveSortBy, req.cursor.sortField)

\* a cursor issued under sort_by=ttl presented with sort_by=updated_at
C8_Witness ==
  /\ mode = "controller"
  /\ req.cursor.sortField = Defined(TTL)
  /\ decodeCursor(req.cursor).ok
  /\ req.sort_by = Defined(UPDATED_AT)
  /\ resp.status = 400
  /\ resp.error.name = "CursorParameterMismatchError"

\* C9: parseRequestParams refuses, with "Invalid limit=<value>, must be an
\* integer between 1 and 200" and 400, every limit that is not an integer
\* literal in 1..200, and the limit of a request it accepts is the
\* integer the client sent.
C9_LimitValidation ==
  (mode = "controller" /\ req.limit.def) =>
    /\ ~(IsIntegerLiteral(req.limit.v) /\ RequestedLimit \in 1..200) =>
         /\ resp.status = 400
         /\ resp.error = InvalidLimitError(req.limit.v)
    /\ resp.status = 200 =>
         /\ IsIntegerLiteral(req.limit.v)
         /\ resp.links.self.limit = NumberToString(RequestedLimit)

\* C10: a request whose order is neither asc nor desc is answered 400 with
\* an error about the value of order, and is not served.
C10_InvalidOrderRejected ==
  (/\ mode \in {"controller", "route"}
   /\ req.order.def
   /\ trim(toLowerCase(req.order.v)) \notin {ASC, DESC}) =>
    /\ resp.status = 400
    /\ resp.error.value = req.order.v \/ "order" \in resp.error.issues

(***************************************************************************)
(* Properties of the cursor of a request (ParamSpec).                      *)
(***************************************************************************)
\* the shape a cursor is required to have: JSON with cursorType next or
\* prev and a position whose keyHash is a string
WellShaped(cursor) ==
  /\ cursor.kind = "json"
  /\ cursor.cursorType \in {Defined(NEXT), Defined(PREV)}
  /\ cursor.position
  /\ cursor.keyHash.def

\* the error of the response is about the cursor, limit and sort_by having
\* passed the checks parseRequestParams makes before it reads the cursor
ReportsInvalidCursor ==
  /\ resp.status = 400
  /\ resp.error.name # "Error" => resp.error = InvalidCursorError(req.cursor)

\* C11: a cursor that does not decode to JSON, or decodes to JSON without
\* the required shape, is answered 400 with InvalidCursorError whose
\* message is made of the cursor string as sent.
C11_UndecodableCursorRejected ==
  (mode = "controller" /\ req.cursor.kind # "none" /\ ~WellShaped(req.cursor)) =>
    ReportsInvalidCursor

\* the object {} presented as the cursor
C11_Witness ==
  /\ mode = "controller"
  /\ req.cursor = EmptyObjectCursor
  /\ resp.status = 400
  /\ resp.error = InvalidCursorError(EmptyObjectCursor)

\* C12: a cursor with a sortField that is none of durability, key_hash,
\* ttl, updated_at is answered 400 with InvalidCursorError, whatever the
\* sort_by of the request, and not with a cursor/parameter mismatch.
C12_UnknownSortFieldRejected ==
  (/\ mode = "controller"
   /\ WellShaped(req.cursor)
   /\ req.cursor.sortField.def
   /\ req.cursor.sortField.v \notin {DURABILITY, KEY_HASH, TTL, UPDATED_AT}) =>
    ReportsInvalidCursor

\* the JSON type of a sort value is the one its field has: a number for
\* ttl and updated_at, a string for durability
SortValueTypeMatches(sortField, sortValue) ==
  IF sortField \in {TTL, UPDATED_AT} THEN sortValue.t = "number" ELSE sortValue.t = "string"

\* C13: a cursor whose sortField is ttl, updated_at or durability and
\* whose sortValue is missing, or is a string for ttl or updated_at, or a
\* number for durability, is answered 400 with InvalidCursorError.
C13_SortValueTypeChecked ==
  (/\ mode = "controller"
   /\ WellShaped(req.cursor)
   /\ req.cursor.sortField \in {Defined(TTL), Defined(UPDATED_AT), Defined(DURABILITY)}
   /\ \/ req.cursor.sortValue.t = "undefined"
      \/ /\ req.cursor.sortValue.t \in {"number", "string"}
         /\ ~SortValueTypeMatches(req.cursor.sortField.v, req.cursor.sortValue)) =>
    ReportsInvalidCursor

\* C14: a cursor with a null sortValue is accepted only if its sortField
\* is ttl: with sortField updated_at or durability it is answered 400.
C14_NullSortValueOnlyForTtl ==
  (mode = "controller" /\ WellShaped(req.cursor) /\ req.cursor.sortValue = SvNull) =>
    /\ req.cursor.sortField \in {Defined(UPDATED_AT), Defined(DURABILITY)} => resp.status = 400
    /\ resp.status # 400 => req.cursor.sortField = Defined(TTL)

\* a null sortValue under updated_at, with the matching sort_by, refused
C14_Witness ==
  /\ mode = "controller"
  /\ req.sort_by = Defined(UPDATED_AT)
  /\ ~req.limit.def
  /\ WellShaped(req.cursor)
  /\ req.cursor.sortField = Defined(UPDATED_AT)
  /\ req.cursor.sortValue = SvNull
  /\ resp.status = 400

ValidCursorData ==
  {CursorData(NEXT, Undefined, KeyHashes[2], SvUndefined),
   CursorData(NEXT, Defined(TTL), KeyHashes[3], SvNumber(901)),
   CursorData(NEXT, Defined(UPDATED_AT), KeyHashes[4], SvNumber(2)),
   CursorData(PREV, Defined(DURABILITY), KeyHashes[4], SvString(DUR_PERSISTENT))}
  \cup BigIntCursorData

\* two sort values are the same position: the same number, whether held
\* as a number or as a bigint, or else the same value
SameSortValue(a, b) ==
  IF a.t \in {"number", "bigint"} /\ b.t \in {"number", "bigint"} THEN a.n = b.n ELSE a = b

\* C16: decodeCursor(encodeCursor(c)) succeeds and gives back the
\* cursorType, sortField, keyHash and sort value of c, and a cursor encoded
\* from a bigint ttl is served (200) by a request with sort_by=ttl.
C16_CursorRoundTrip ==
  mode = "controller" =>
    \A c \in ValidCursorData :
      req.cursor = encodeCursor(c) =>
        /\ decodeCursor(req.cursor).ok
        /\ decodeCursor(req.cursor).data.cursorType = c.cursorType
        /\ decodeCursor(req.cursor).data.sortField = c.sortField
        /\ decodeCursor(req.cursor).data.position.keyHash = c.position.keyHash
        /\ SameSortValue(decodeCursor(req.cursor).data.position.sortValue, c.position.sortValue)
        /\ (/\ c \in BigIntCursorData
            /\ req.sort_by = Defined(TTL)
            /\ ~req.limit.def
            /\ collaborators = AllUp) => resp.status = 200

(***************************************************************************)
(* Properties of the handling of a request (ParamSpec): what it calls and  *)
(* what it answers.                                                        *)
(***************************************************************************)
\* the limit of the request is given and is not an integer in 1..200
FailsLimitValidation ==
  req.limit.def /\ ~(IsIntegerLiteral(req.limit.v) /\ RequestedLimit \in 1..200)

\* the sort_by of the request is given and is none of the four fields
FailsSortByValidation == req.sort_by.def /\ ~IsIn(validSortFields, EffectiveSortBy)

\* the cursor of the request is given and is no cursor of the service: it
\* has not the required shape, or names an unknown sortField, or one other
\* than the request's sort_by, or has under updated_at or durability a
\* null sortValue, or under ttl, updated_at or durability no sortValue or
\* one of the wrong JSON type
FailsCursorValidation ==
  /\ req.cursor.kind # "none"
  /\ \/ ~WellShaped(req.cursor)
     \/ ~IsIn(validSortFields, CursorSortField)
     \/ CursorSortField # EffectiveSortBy
     \/ /\ req.cursor.sortField \in {Defined(UPDATED_AT), Defined(DURABILITY)}
        /\ req.cursor.sortValue = SvNull
     \/ /\ req.cursor.sortField \in {Defined(TTL), Defined(UPDATED_AT), Defined(DURABILITY)}
        /\ \/ req.cursor.sortValue.t = "undefined"
           \/ /\ req.cursor.sortValue.t = "number"
              /\ ~SortValueTypeMatches(req.cursor.sortField.v, req.cursor.sortValue)
           \/ /\ req.cursor.sortValue.t = "string"
              /\ ~SortValueTypeMatches(req.cursor.sortField.v, req.cursor.sortValue)
              /\ ~IsIntegerLiteral(req.cursor.sortValue.s)

FailsValidation == FailsLimitValidation \/ FailsSortByValidation \/ FailsCursorValidation

\* the calls of the handling that reach a collaborator
CollaboratorCalls == {i \in 1..Len(effects) : effects[i].call \in {"getLatestLedger", "queryRaw"}}

\* the storage queries of the handling are built from request parameters
\* that are valid and agree with each other
QueryBuilderInputsValid ==
  \A i \in 1..Len(effects) :
    effects[i].call = "queryRaw" =>
      /\ effects[i].config.limit \in 1..200
      /\ IsIn(validSortFields, effects[i].config.sortField)
      /\ effects[i].config.sortDbField = APIFieldToDBFieldMap(effects[i].config.sortField)
      /\ effects[i].config.hasCursor =>
           (IF effects[i].config.cursorData.sortField.def
            THEN effects[i].config.cursorData.sortField.v
            ELSE KEY_HASH) = effects[i].config.sortField

\* a request answered 400 has called no collaborator
RefusedWithoutEffects == resp.status = 400 => CollaboratorCalls = {}

\* C17: a request that fails limit, sort_by or cursor validation is
\* answered 400 without a call of the ledger-state service and without a
\* storage query, and every storage query is built from parameters with
\* limit in 1..200, a sortField of the four, the column mapped from it,
\* and a cursor whose sortField is that sortField.
C17_ValidationPrecedesEffects ==
  mode \in {"controller", "route"} =>
    /\ FailsValidation => resp.status = 400 /\ CollaboratorCalls = {}
    /\ RefusedWithoutEffects
    /\ QueryBuilderInputsValid

\* the handling has sent one response, as its last step, with the status
\* of the response
RespondedOnce ==
  /\ effects # <<>>
  /\ effects[Len(effects)] = Send(resp.status)
  /\ \A i \in 1..(Len(effects) - 1) : effects[i].call # "res.json"

\* the response is {error} or {_links, results}
ResponseShape ==
  \/ resp.status = 200 /\ resp.error = NoError /\ resp.links.self.def
  \/ resp.status \in {400, 500} /\ resp.error # NoError /\ resp.results = <<>> /\ resp.links = NoLinks

\* a collaborator that was called has failed
CollaboratorFailed ==
  \/ ~collaborators.ledgerUp /\ \E i \in CollaboratorCalls : effects[i].call = "getLatestLedger"
  \/ ~collaborators.storageUp /\ \E i \in CollaboratorCalls : effects[i].call = "queryRaw"

\* C18: every request is answered once, with {error} or {_links,
\* results}; a request that fails validation is answered 400, one whose
\* ledger-state lookup or storage query fails 500, and any other 200.
C18_OneResponsePerRequest ==
  mode \in {"controller", "route"} =>
    /\ RespondedOnce
    /\ ResponseShape
    /\ FailsValidation => resp.status = 400
    /\ CollaboratorFailed => resp.status = 500
    /\ (/\ ~FailsValidation
        /\ ~CollaboratorFailed
        /\ mode = "controller"
        /\ req.cursor.sortValue # SvNull) => resp.status = 200

(***************************************************************************)
(* Properties of the rows of a page (Spec).                                *)
(***************************************************************************)
\* the row of the table a result was made from
RowOf(result) == CHOOSE row \in table : row.key_hash = result.key_hash

\* C19: in every page, expired of a result is a boolean, and is true
\* exactly where the ttl of its row is not null and is less than the
\* latest ledger sequence of the request: false for a null ttl and for a
\* ttl that is the latest ledger sequence.
C19_ExpiredDerived ==
  resp.status = 200 =>
    \A i \in 1..Len(resp.results) :
      /\ \E row \in table : row.key_hash = resp.results[i].key_hash
      /\ resp.results[i].expired \in BOOLEAN
      /\ resp.results[i].expired <=>
           /\ ~RowOf(resp.results[i]).live_until_ledger_sequence.null
           /\ RowOf(resp.results[i]).live_until_ledger_sequence.v < latestLedgerSequence

\* a page fetched with a cursor that holds an expired row and a row whose
\* ttl is the latest ledger sequence, not expired
C19_Witness ==
  /\ resp.status = 200
  /\ req.cursor.kind # "none"
  /\ \E i, j \in 1..Len(resp.results) :
       /\ resp.results[i].expired
       /\ resp.results[i].ttl = SqlInt(901)
       /\ ~resp.results[j].expired
       /\ resp.results[j].ttl = SqlInt(latestLedgerSequence)

(***************************************************************************)
(* Properties of the ledger-state service (CacheSpec).                     *)
(***************************************************************************)
\* the step is a call of getLatestLedger by c
Calls(c) == calls[c].pc # "awaiting" /\ calls'[c] # calls[c]

\* a fetch has completed and did so at most 5000 ms ago
FetchedWithinLifetime ==
  /\ cachedLatestLedgerSequence.def
  /\ cachedLatestLedgerAtMs.def
  /\ now - cachedLatestLedgerAtMs.v <= 5000

\* C20: a call of getLatestLedger made at most 5000 ms after the last
\* fetch completed returns the cached sequence and makes no upstream call;
\* a call made later, or before any fetch completed, makes one upstream
\* call, and when that resolves the cache holds its sequence and the time
\* of its completion; whichever fetch the constructor bound.
C20_CacheLifetime ==
  [][\A c \in Callers :
       /\ Calls(c) =>
            IF FetchedWithinLifetime
            THEN /\ calls'[c].pc = "returned"
                 /\ calls'[c].result = cachedLatestLedgerSequence.v
                 /\ upstreamCalls' = upstreamCalls
                 /\ cachedLatestLedgerSequence' = cachedLatestLedgerSequence
                 /\ cachedLatestLedgerAtMs' = cachedLatestLedgerAtMs
            ELSE /\ calls'[c].pc = "awaiting"
                 /\ upstreamCalls' = upstreamCalls + 1
       /\ (calls[c].pc = "awaiting" /\ calls'[c].pc = "returned") =>
            /\ upstreamCalls' = upstreamCalls
            /\ cachedLatestLedgerSequence' = Cached(calls'[c].result)
            /\ cachedLatestLedgerAtMs' = Cached(now)]_vars

\* over Horizon: a fetch completed at 0, a call at 5000 was served from the
\* cache, and a call at 5001 has its own fetch out
C20_Witness ==
  /\ fetchLatestLedger = "pubnetHorizonClient.root"
  /\ cachedLatestLedgerAtMs = Cached(0)
  /\ now = 5001
  /\ calls["first"].pc = "returned"
  /\ calls["first"].atMs = 5000
  /\ calls["first"].asked = 0
  /\ calls["first"].result = cachedLatestLedgerSequence.v
  /\ calls["second"].pc = "awaiting"
  /\ calls["second"].atMs = 5001
  /\ upstreamCalls = 2

\* C21: when the fetch of a call fails the call rejects with the error of
\* the upstream, the cached sequence and its timestamp stay as they were
\* and no further upstream call is made by it; the next call of that
\* caller, unless a value cached meanwhile is still valid, fetches again.
C21_FailureNotCached ==
  [][\A c \in Callers :
       /\ (calls[c].pc = "awaiting" /\ calls'[c].pc = "rejected") =>
            /\ calls'[c].error \in UpstreamErrors
            /\ calls'[c].result = 0
            /\ cachedLatestLedgerSequence' = cachedLatestLedgerSequence
            /\ cachedLatestLedgerAtMs' = cachedLatestLedgerAtMs
            /\ upstreamCalls' = upstreamCalls
       /\ (calls[c].pc = "rejected" /\ Calls(c) /\ ~FetchedWithinLifetime) =>
            /\ calls'[c].pc = "awaiting"
            /\ upstreamCalls' = upstreamCalls + 1]_vars

\* a call has been rejected while the value another call fetched is cached
\* and still valid
C21_Witness ==
  /\ calls["first"].pc = "rejected"
  /\ calls["first"].error = "RPC connection failed"
  /\ calls["second"].pc = "returned"
  /\ calls["second"].asked # 0
  /\ cachedLatestLedgerSequence = Cached(calls["second"].result)
  /\ FetchedWithinLifetime
  /\ upstreamCalls = 2

\* C30: a call that finds no valid cached value starts an upstream fetch
\* of its own, whether or not the fetch of another call is out; a fetch
\* that resolves gives its caller its own answer, overwrites the cached
\* sequence with that answer and the timestamp with the time of its
\* completion, and leaves the other calls as they are.
C30_ConcurrentMissesNotCoalesced ==
  [][\A c \in Callers :
       /\ (Calls(c) /\ ~FetchedWithinLifetime) =>
            /\ calls'[c].pc = "awaiting"
            /\ calls'[c].asked = networkLedger
            /\ upstreamCalls' = upstreamCalls + 1
            /\ \A d \in Callers \ {c} : calls'[d] = calls[d]
       /\ (calls[c].pc = "awaiting" /\ calls'[c].pc = "returned") =>
            /\ calls'[c].result \in calls[c].asked..networkLedger
            /\ cachedLatestLedgerSequence' = Cached(calls'[c].result)
            /\ cachedLatestLedgerAtMs' = Cached(now)
            /\ \A d \in Callers \ {c} : calls'[d] = calls[d]]_vars

\* two calls made at the same time each fetched; the first was answered
\* with the later ledger, the second completed last with the earlier one,
\* and the earlier one is what is cached
C30_Witness ==
  /\ upstreamCalls = 2
  /\ calls["first"].pc = "returned"
  /\ calls["second"].pc = "returned"
  /\ calls["first"].asked # 0
  /\ calls["second"].asked # 0
  /\ calls["first"].atMs = calls["second"].atMs
  /\ calls["first"].result > calls["second"].result
  /\ cachedLatestLedgerSequence = Cached(calls["second"].result)

(***************************************************************************)
(* Properties of the statement the query builder emits (ParamSpec).        *)
(***************************************************************************)
\* the text of a statement: its clauses with every bound parameter (the
\* cursor's key hash and sort value, the limit) left out; cast tells
\* whether the sort value is written as to_timestamp($n) or as $n
StatementText(query) ==
  [cte |-> query.cte, form |-> query.where.form, column |-> query.where.column,
   op |-> query.where.op,
   cast |-> query.where.form \in {"keyset", "keysetOrNull"} /\ query.where.value.type = "timestamptz",
   orderByInCTE |-> query.orderByInCTE, orderByFinal |-> query.orderByFinal]

\* non-null sort values a cursor may hold
BoundSortValues == {SvNumber(1), SvNumber(901), SvString(<<"x">>), SvBigInt(901)}

\* the configurations that differ from config at most in limit, in the key
\* hash of the cursor and in its sort value where it has one that is not
\* null
SameButValues(config) ==
  {[config EXCEPT !.limit = l, !.cursorData.position.keyHash = k,
                  !.cursorData.position.sortValue = v] :
     l \in 1..MaxLimit, k \in Range(KeyHashes),
     v \in IF config.cursorData.position.sortValue.t \in {"undefined", "null"}
           THEN {config.cursorData.position.sortValue}
           ELSE BoundSortValues}

\* the configurations the storage queries of the handling were built from
QueriedConfigs == {effects[i].config : i \in {j \in 1..Len(effects) : effects[j].call = "queryRaw"}}

IsUnixSeconds(config) ==
  config.sortDbField = "closed_at" /\ config.cursorData.position.sortValue.t = "number"

FollowsLink == mode \in {"forward", "backward"} /\ req.cursor.kind = "json"

\* the place of a key hash in a list of key hashes
PlaceOf(keys, k) == CHOOSE i \in 1..Len(keys) : keys[i] = k

\* the up to limit key hashes next to the row of key hash k in the order
\* (sort_field, key_hash) of the direction: those right after it for a
\* next cursor, those right before it for a prev cursor, in that order
NearestKeys(rows, sortField, order, cursorType, k, limit) ==
  LET keys == ExpectedKeys(rows, sortField, order)
      i == PlaceOf(keys, k)
  IN IF cursorType = NEXT
     THEN SubSeq(keys, i + 1, IF i + limit < Len(keys) THEN i + limit ELSE Len(keys))
     ELSE SubSeq(keys, IF i - limit > 1 THEN i - limit ELSE 1, i - 1)

\* C24: the page a request with a cursor positioned at a row returns is
\* exactly the up to limit rows nearest to that row on the side of the
\* cursor in the order (sort_field, key_hash) of the requested direction,
\* listed in the requested order.
C24_PageIsNearestRows ==
  FollowsLink =>
    /\ resp.status = 200
    /\ KeysOf(resp.results) =
         NearestKeys(table, RequestedSortField, RequestedOrder, req.cursor.cursorType.v,
                     req.cursor.keyHash.v, RequestedLimit)

(***************************************************************************)
(* Properties of the ttl keyset predicate (BuilderSpec).                   *)
(***************************************************************************)
\* the configuration the statement was built from
BuiltFrom == effects[1].config

\* the operator of the predicate: > where the page is fetched ascending
BuiltOp == CursorOp(directionInCTE(BuiltFrom.cursorData.cursorType, BuiltFrom.sortDirection))

\* the key hashes of the rows strictly beyond the cursor (k, v) in the
\* direction of op, the rows without ttl being last ascending
BeyondCursor(rows, op, k, v) ==
  {r.key_hash : r \in
     {r \in rows :
        LET ttl == r.live_until_ledger_sequence
        IN CASE v.t = "null" /\ op = ">" -> ttl.null /\ TextLess(k, r.key_hash)
             [] v.t = "null" /\ op = "<" -> ~ttl.null \/ TextLess(r.key_hash, k)
             [] v.t # "null" /\ op = ">" ->
                  \/ ttl.null
                  \/ ttl.v > v.n
                  \/ ttl.v = v.n /\ TextLess(k, r.key_hash)
             [] OTHER ->
                  /\ ~ttl.null
                  /\ \/ ttl.v < v.n
                     \/ ttl.v = v.n /\ TextLess(r.key_hash, k)}}

\* C25: the ttl keyset predicate selects exactly the rows strictly beyond
\* the cursor: for a null cursor value and > the rows without ttl of
\* greater key_hash, for a null cursor value and < every row with ttl and
\* the rows without of smaller key_hash, for a cursor value and > the
\* keyset matches and every row without ttl, for a cursor value and < the
\* keyset matches and no row without ttl.
C25_TtlKeysetPredicate ==
  mode = "builder" =>
    /\ Range(KeysOf(resp.results)) \subseteq
         BeyondCursor(table, BuiltOp, BuiltFrom.cursorData.position.keyHash,
                      BuiltFrom.cursorData.position.sortValue)
    /\ BuiltFrom.limit = WholeTable =>
         Range(KeysOf(resp.results)) =
           BeyondCursor(table, BuiltOp, BuiltFrom.cursorData.position.keyHash,
                        BuiltFrom.cursorData.position.sortValue)

\* a null cursor value with <: a row with ttl and a row without ttl of
\* smaller key_hash are selected, a row without ttl of greater key_hash
\* is not
C25_Witness ==
  /\ mode = "builder"
  /\ BuiltFrom.cursorData.position.sortValue = SvNull
  /\ BuiltOp = "<"
  /\ BuiltFrom.limit = WholeTable
  /\ \E i, j \in 1..Len(resp.results) : ~resp.results[i].ttl.null /\ resp.results[j].ttl.null
  /\ \E r \in table :
       /\ r.live_until_ledger_sequence.null
       /\ r.key_hash \notin Range(KeysOf(resp.results))
       /\ r.key_hash # BuiltFrom.cursorData.position.keyHash

(***************************************************************************)
(* Properties of the links of a page (Spec).                               *)
(***************************************************************************)
\* the request made of a link passes the validation of the route and of
\* parseRequestParams: its cursor decodes, has the shape and types
\* required, and agrees with its sort_by
Followable(link) ==
  /\ requestQuerySchemaIssues(QueryOfLink(link)) = {}
  /\ parseRequestParams(QueryOfLink(link)).ok

\* C26: every next or prev link of a successful response is followable,
\* whatever the sort field and the row the cursor of the link is taken
\* from, a row without ttl included.
C26_LinksFollowable ==
  resp.status = 200 =>
    /\ resp.links.next.def => Followable(resp.links.next)
    /\ resp.links.prev.def => Followable(resp.links.prev)

\* C27: the row a cursor is taken from is never part of the page fetched
\* with that cursor, for every sort field, and under updated_at for every
\* closed_at, on a whole second or not.
C27_BoundaryRowExcluded ==
  (FollowsLink /\ resp.status = 200) =>
    req.cursor.keyHash.v \notin Range(KeysOf(resp.results))

\* C28: a response without results carries the self link and neither a
\* next nor a prev link, whether or not the request had a cursor.
C28_EmptyPageOnlySelf ==
  (resp.status = 200 /\ resp.results = <<>>) =>
    /\ resp.links.self.def
    /\ ~resp.links.next.def
    /\ ~resp.links.prev.def

\* the empty page a forward walk ends on, fetched by a next cursor
C28_Witness ==
  /\ mode = "forward"
  /\ req.cursor.cursorType = Defined(NEXT)
  /\ resp.status = 200
  /\ resp.results = <<>>
  /\ resp.links.self.def
  /\ resp.links = [NoLinks EXCEPT !.self = resp.links.self]
  /\ Len(pages) >= 1

(***************************************************************************)
(* Properties of a cursor presented under another order or limit           *)
(* (ParamSpec).                                                            *)
(***************************************************************************)
\* the cursor of the request is one the link builder issues for a row of
\* the table: of its type and sort field, with the key hash and the sort
\* value of the row
IssuedForRowOfTable ==
  /\ req.cursor.kind = "json"
  /\ req.cursor.cursorType \in {Defined(NEXT), Defined(PREV)}
  /\ \E r \in table :
       CursorTakenFrom(req.cursor, req.cursor.cursorType.v, CursorSortField,
                       serializeContractDataResults(<<WithExpired(r, latestLedgerSequence)>>)[1])

\* the limit the request asks for, 20 when it names none
LimitAskedFor == IF req.limit.def THEN RequestedLimit ELSE IntegerDenoted(DefaultLimit)

\* C29: a cursor issued for a row, presented with the sort_by it was
\* issued under and any valid order and limit, is accepted, and the page
\* is the up to limit rows nearest to the row on the side of the cursor
\* in the order and with the limit of the request that presents it.
C29_CursorFreeOfOrderAndLimit ==
  (/\ mode \in {"controller", "route"}
   /\ collaborators = AllUp
   /\ IssuedForRowOfTable
   /\ ~FailsLimitValidation
   /\ req.order \in {Undefined, Defined(ASC), Defined(DESC)}
   /\ RequestedSortField = CursorSortField) =>
    /\ resp.status = 200
    /\ KeysOf(resp.results) =
         NearestKeys(table, RequestedSortField, RequestedOrder, req.cursor.cursorType.v,
                     req.cursor.keyHash.v, LimitAskedFor)

====
